---- MODULE Spec2Model ----
(***************************************************************************)
(* Vesper dual-path verification core: the execution orchestrator          *)
(* (vesper_runtime/executor.py), the shadow executor, the confidence       *)
(* tracker, the execution router and the output comparator                 *)
(* (vesper_verification/*.py), as a state machine.                         *)
(*                                                                         *)
(* Numbers.  Handler outputs are numeric values on a grid: a float value v *)
(* stands for v grid steps, the comparator's epsilon is Epsilon steps and  *)
(* the literal 1.0 is One steps.  Confidence is a fixed-point number in    *)
(* units of 1/ConfScale.                                                   *)
(***************************************************************************)
EXTENDS Integers, Sequences, FiniteSets, TLC

\* ------------------------------------------------------------------- state
VARIABLES
    cfg,          \* which optional components the orchestrator was built with
    pyHandlers,   \* PythonRuntime._handlers: the nodes with an oracle handler
    dHandlers,    \* DirectRuntime._handlers: the nodes with a candidate handler
    overrides,    \* RoutingConfig.node_overrides
    tracker,      \* ConfidenceTracker.metrics
    metrics,      \* the MetricsCollector: its _executions and its _aggregates
    tasks,        \* the shadow tasks created so far, in creation order
    waiter,       \* the wait_for_pending call in progress, if any
    last,         \* the API call that returned last, and what it returned
    nOps,         \* API calls made so far
    records,      \* DivergenceDatabase._records
    stored,       \* per node, the store calls made since the node was last empty
    document,     \* the file at DivergenceDatabase.storage_path
    saving,       \* the _save_to_file call in progress, if any
    difftest,     \* the DifferentialTester.test_node call in progress
    checked,      \* the ContractChecker call made last, and its result
    pair,         \* the two values handed to OutputComparator.compare
    snapshot      \* the dict the last call got from ConfidenceTracker.serialize

vars == <<cfg, pyHandlers, dHandlers, overrides, tracker, metrics, tasks, waiter, last, nOps,
          records, stored, document, saving, difftest, checked, pair, snapshot>>

\* time.time(), read as the number of API calls made so far.
time_time == nOps

\* ------------------------------------------------------------------ bounds
\* Orchestrator calls (execute, execute_dual) per behaviour.
MaxOps == 1
\* execute_shadow calls per behaviour of the shadow executor on its own.
MaxShadow == 2
\* Float outputs a candidate handler may return: 0..MaxOut grid steps.
MaxOut == 2

\* n1 has a handler on both runtimes, n2 on the oracle only, n3 on neither.
Nodes == {"n1", "n2", "n3"}
\* Request inputs {"value": x}: x is a Python int or float of value v.
IntIn(k) == [ty |-> "int", v |-> k]
FloatIn(k) == [ty |-> "float", v |-> k]
Inputs == {IntIn(1), IntIn(6)}

Max(a, b) == IF a >= b THEN a ELSE b
Abs(a) == IF a >= 0 THEN a ELSE -a
\* K applied to the value of v.
Then(v, K(_)) == CHOOSE y \in {K(w) : w \in {v}} : TRUE

\* ------------------------------------------------------------------ values
\* A scalar: its Python type, its value in grid steps, whether it is beyond
\* the float range, and which special value (if any) it is.
NoneVal == [ty |-> "none", v |-> 0, big |-> FALSE, sp |-> "finite"]
F(k) == [ty |-> "float", v |-> k, big |-> FALSE, sp |-> "finite"]
\* An int beyond the float range (float(n) raises OverflowError).
HugeInt == [ty |-> "int", v |-> 0, big |-> TRUE, sp |-> "finite"]

\* Output mappings: functions from keys to values; {} is the empty mapping.
EmptyOut == [k \in {} |-> NoneVal]
Out(x) == [k \in {"result"} |-> x]

\* What the oracle / candidate handlers may return.
PyValues == {F(0), HugeInt}
DValues == {F(k) : k \in 0..MaxOut}

\* ------------------------------------------------------------------ errors
NoErr == [src |-> "none", kind |-> "none", k |-> 0]
Err(src, kind, k) == [src |-> src, kind |-> kind, k |-> k]

\* ------------------------------------------------- OutputComparator (4.1)
\* epsilon (constructor argument) and the literal 1.0, in grid steps.
Epsilon == 1
One == 1000

\* timestamp_tolerance_ms (constructor argument).
timestamp_tolerance_ms == 1000

\* Further values of the output domain.  bool is a subclass of int; the int k
\* is k * One grid steps; float("nan"), float("inf"), float("-inf") and
\* Decimal("NaN"), Decimal("sNaN"), Decimal("Infinity") are the special values.
PyBool(b) == [ty |-> "bool", v |-> IF b THEN One ELSE 0, big |-> FALSE, sp |-> "finite"]
PyInt(k) == [ty |-> "int", v |-> k * One, big |-> FALSE, sp |-> "finite"]
Dec(k) == [ty |-> "decimal", v |-> k, big |-> FALSE, sp |-> "finite"]
FloatSpecial(sp) == [ty |-> "float", v |-> 0, big |-> FALSE, sp |-> sp]
DecSpecial(sp) == [ty |-> "decimal", v |-> 0, big |-> FALSE, sp |-> sp]

\* A string: its text, whether it has at least 10 characters with "-" at
\* positions 4 and 7, whether datetime.fromisoformat accepts it (after "Z" is
\* replaced by "+00:00"), and if so whether the datetime carries an offset and
\* its time in milliseconds.
Str(text, dashes, parses, aware, ms) ==
    [ty |-> "str", text |-> text, dashes |-> dashes, parses |-> parses,
     aware |-> aware, ms |-> ms]

PyList(items) == [ty |-> "list", items |-> items]
PyTuple(items) == [ty |-> "tuple", items |-> items]
PyDict(entries) == [ty |-> "dict", entries |-> entries]

\* Result of a comparison: the number of differences, or Raised.
Raised == -1

\* isinstance(x, (int, float, Decimal))
IsNumeric(x) == x.ty \in {"bool", "int", "float", "decimal"}

_types_compatible(v1, v2) ==
    \/ v1.ty = v2.ty
    \/ IsNumeric(v1) /\ IsNumeric(v2)
    \/ v1.ty \in {"list", "tuple"} /\ v2.ty \in {"list", "tuple"}

\* float(n): OverflowError for an int beyond the float range, ValueError for a
\* signaling NaN.
float_raises(n) == n.big \/ n.sp = "snan"

_compare_numbers(n1, n2) ==
    IF float_raises(n1) \/ float_raises(n2) THEN Raised
    ELSE IF n1.sp = "nan" /\ n2.sp = "nan" THEN 0
    ELSE IF n1.sp = "nan" \/ n2.sp = "nan" THEN 1
    ELSE IF n1.sp \in {"inf", "-inf"} /\ n2.sp \in {"inf", "-inf"}
         THEN IF n1.sp = n2.sp THEN 0 ELSE 1
    \* one infinity: the difference is infinite, the relative difference NaN
    ELSE IF n1.sp \in {"inf", "-inf"} \/ n2.sp \in {"inf", "-inf"} THEN 1
    ELSE LET f1 == n1.v
             f2 == n2.v
         IN IF Abs(f1 - f2) <= Epsilon THEN 0
            ELSE IF /\ (Abs(f1) > One \/ Abs(f2) > One)
                    /\ Abs(f1 - f2) * One <= Epsilon * Max(Abs(f1), Abs(f2))
                 THEN 0
                 ELSE 1

_looks_like_timestamp(s) == s.dashes

_compare_timestamps(t1, t2) ==
    IF \/ ~t1.parses \/ ~t2.parses      \* fromisoformat raises ValueError
       \/ t1.aware # t2.aware           \* dt1 - dt2 raises TypeError
    THEN IF t1.text # t2.text THEN 1 ELSE 0
    ELSE IF Abs(t1.ms - t2.ms) <= timestamp_tolerance_ms THEN 0 ELSE 1

\* Python's != on two values of compatible non-float types.
PyNe(v1, v2) ==
    IF v1.ty = "str" THEN v1.text # v2.text
    ELSE IF IsNumeric(v1) THEN v1.v # v2.v \/ v1.big # v2.big
    ELSE v1 # v2

\* Sums of difference counts; an exception in either propagates.
Plus(a, b) == IF a = Raised \/ b = Raised THEN Raised ELSE a + b

RECURSIVE _compare_recursive(_, _)
RECURSIVE _compare_keys(_, _, _)
RECURSIVE _compare_from(_, _, _)

_compare_keys(d1, d2, keys) ==
    IF keys = {} THEN 0
    ELSE LET key == CHOOSE k \in keys : TRUE
             here == IF key \notin DOMAIN d1 THEN 1
                     ELSE IF key \notin DOMAIN d2 THEN 1
                     ELSE _compare_recursive(d1[key], d2[key])
             rest == _compare_keys(d1, d2, keys \ {key})
         IN Plus(here, rest)

\* The loop of _compare_lists, from index i on.
_compare_from(l1, l2, i) ==
    IF i > Len(l1) \/ i > Len(l2) THEN 0
    ELSE Plus(_compare_recursive(l1[i], l2[i]), _compare_from(l1, l2, i + 1))

_compare_lists(l1, l2) ==
    Plus(IF Len(l1) # Len(l2) THEN 1 ELSE 0, _compare_from(l1, l2, 1))

_compare_recursive(v1, v2) ==
    IF v1.ty = "none" /\ v2.ty = "none" THEN 0
    ELSE IF v1.ty = "none" \/ v2.ty = "none" THEN 1
    ELSE IF ~_types_compatible(v1, v2) THEN 1
    ELSE IF v1.ty = "dict"
         THEN _compare_keys(v1.entries, v2.entries, DOMAIN v1.entries \cup DOMAIN v2.entries)
    ELSE IF v1.ty \in {"list", "tuple"} THEN _compare_lists(v1.items, v2.items)
    ELSE IF v1.ty \in {"float", "decimal"} \/ v2.ty \in {"float", "decimal"}
         THEN _compare_numbers(v1, v2)
    ELSE IF v1.ty = "str" /\ _looks_like_timestamp(v1) THEN _compare_timestamps(v1, v2)
    ELSE IF PyNe(v1, v2) THEN 1 ELSE 0

_compare_dicts(d1, d2) == _compare_keys(d1, d2, DOMAIN d1 \cup DOMAIN d2)

\* compare: "none" (equal, the code's None), "diff" (a report), "raise".
compare(python_output, direct_output) ==
    LET differences == _compare_dicts(python_output, direct_output)
    IN IF differences = Raised THEN "raise"
       ELSE IF differences > 0 THEN "diff" ELSE "none"

\* Python's != on two output mappings (the comparator-less path).
PyNotEqual(o, c) == o # c

\* ------------------------------------------------ ConfidenceTracker (4.2)
MIN_SAMPLE_SIZE == 100
\* Z_SCORE = 3.29 in hundredths.
Z_SCORE == 329
ConfScale == 10000

\* A RuntimeMetrics that was last updated at time 0.
RuntimeMetrics(t, d, pe, de) ==
    [total_executions |-> t, divergences |-> d, python_errors |-> pe, direct_errors |-> de,
     last_updated |-> 0]

\* The four counters of a RuntimeMetrics.
Counters(m) == <<m.total_executions, m.divergences, m.python_errors, m.direct_errors>>

\* A tracker that keeps the flags of the execution recorded last instead of
\* adding them up.
record_execution_last(tr, node_id, diverged, python_error, direct_error) ==
    LET m == IF node_id \in DOMAIN tr THEN tr[node_id] ELSE RuntimeMetrics(0, 0, 0, 0)
        m2 == [total_executions |-> m.total_executions + 1,
               divergences |-> IF diverged THEN 1 ELSE 0,
               python_errors |-> IF python_error THEN 1 ELSE 0,
               direct_errors |-> IF direct_error THEN 1 ELSE 0,
               last_updated |-> time_time]
    IN [n \in DOMAIN tr \cup {node_id} |-> IF n = node_id THEN m2 ELSE tr[n]]

\* A tracker that counts an execution for every tracked node.
record_execution_all(tr, node_id, diverged, python_error, direct_error) ==
    [n \in DOMAIN tr \cup {node_id} |->
        LET m == IF n \in DOMAIN tr THEN tr[n] ELSE RuntimeMetrics(0, 0, 0, 0)
        IN IF n = node_id
           THEN [total_executions |-> m.total_executions + 1,
                 divergences |-> m.divergences + (IF diverged THEN 1 ELSE 0),
                 python_errors |-> m.python_errors + (IF python_error THEN 1 ELSE 0),
                 direct_errors |-> m.direct_errors + (IF direct_error THEN 1 ELSE 0),
                 last_updated |-> time_time]
           ELSE [m EXCEPT !.total_executions = @ + 1]]

\* tr is the tracker's metrics dict: a function from the tracked nodes.
record_execution(tr, node_id, diverged, python_error, direct_error) ==
    LET m == IF node_id \in DOMAIN tr THEN tr[node_id] ELSE RuntimeMetrics(0, 0, 0, 0)
        m2 == [total_executions |-> m.total_executions + 1,
               divergences |-> m.divergences + (IF diverged THEN 1 ELSE 0),
               python_errors |-> m.python_errors + (IF python_error THEN 1 ELSE 0),
               direct_errors |-> m.direct_errors + (IF direct_error THEN 1 ELSE 0),
               last_updated |-> time_time]
    IN [n \in DOMAIN tr \cup {node_id} |-> IF n = node_id THEN m2 ELSE tr[n]]

RECURSIVE ISqrtIter(_, _, _)
ISqrtIter(x, lo, hi) ==
    IF lo >= hi THEN lo
    ELSE LET mid == (lo + hi + 1) \div 2
         IN IF mid * mid <= x THEN ISqrtIter(x, mid, hi) ELSE ISqrtIter(x, lo, mid - 1)
\* floor(sqrt(x)) for 0 <= x < 2^30
ISqrt(x) == ISqrtIter(x, 0, 32767)

\* (a * b) / c without leaving 32 bits, for 0 <= a, 0 < c, b = ConfScale.
MulDiv(a, b, c) == (a \div c) * b + ((a % c) * b) \div c

\* The Wilson lower bound computed whatever the number of executions.
get_confidence_ungated(tr, node_id) ==
    IF node_id \notin DOMAIN tr THEN 0
    ELSE LET n == tr[node_id].total_executions
             d == tr[node_id].divergences
             z2 == Z_SCORE * Z_SCORE
             zroot == Z_SCORE * ISqrt(MulDiv(4 * (n - d) * d, 10000, n) + z2)
             den == 200 * n + (2 * z2) \div 100
         IN Max(0, ConfScale - ((2 * d * 10000 + z2 + zroot) * 100 + den - 1) \div den)

\* The Wilson lower bound, as get_confidence computes it, in units of
\* 1/ConfScale.  With n = total, d = divergences, s = n - d, p = s/n:
\*   center - margin = 1 - (2d + z^2 + z*sqrt(4sd/n + z^2)) / (2(n + z^2)).
get_confidence(tr, node_id) ==
    IF node_id \notin DOMAIN tr THEN 0
    ELSE LET m == tr[node_id]
             n == m.total_executions
             d == m.divergences
             s == n - d
             z2 == Z_SCORE * Z_SCORE                       \* z^2 * 10^4
             r4 == MulDiv(4 * s * d, 10000, n) + z2         \* (4sd/n + z^2) * 10^4
             zroot == Z_SCORE * ISqrt(r4)                   \* z*sqrt(..) * 10^4
             defect == 2 * d * 10000 + z2 + zroot           \* * 10^4
             den == 200 * n + (2 * z2) \div 100             \* 2(n + z^2) * 100
             ratio == (defect * 100 + den - 1) \div den     \* ceil, * 10^4
         IN IF n < MIN_SAMPLE_SIZE THEN 0
            ELSE Max(0, ConfScale - ratio)

\* serialize: per node, a dict of the five values.
serialize(tr) ==
    [n \in DOMAIN tr |->
        [total_executions |-> tr[n].total_executions,
         divergences |-> tr[n].divergences,
         python_errors |-> tr[n].python_errors,
         direct_errors |-> tr[n].direct_errors,
         last_updated |-> tr[n].last_updated]]

\* A deserialize that leaves last_updated to its default, time.time().
deserialize_now(data) ==
    [n \in DOMAIN data |->
        [RuntimeMetrics(data[n].total_executions, data[n].divergences,
                        data[n].python_errors, data[n].direct_errors)
            EXCEPT !.last_updated = time_time]]

\* deserialize: a tracker with a RuntimeMetrics per node of the data.
deserialize(data) ==
    [n \in DOMAIN data |->
        [RuntimeMetrics(data[n].total_executions, data[n].divergences,
                        data[n].python_errors, data[n].direct_errors)
            EXCEPT !.last_updated = data[n].last_updated]]

\* A reset that zeroes the node's total and keeps its other counters.
reset_metrics_total(tr, node_id) ==
    [n \in DOMAIN tr |-> IF n = node_id THEN [tr[n] EXCEPT !.total_executions = 0]
                         ELSE tr[n]]

\* reset_metrics: the node's entry is deleted.
reset_metrics(tr, node_id) == [n \in DOMAIN tr \ {node_id} |-> tr[n]]

\* The thresholds of get_recommended_mode, each moved up by 1/ConfScale.
get_recommended_mode_shifted(tr, node_id) ==
    Then(get_confidence(tr, node_id), LAMBDA confidence :
        IF confidence <= 9500 THEN "python_only"
        ELSE IF confidence <= 9990 THEN "canary_direct"
        ELSE IF confidence <= 9999 THEN "dual_verify"
        ELSE "direct_only")

\* get_recommended_mode, with its literals 0.95, 0.999 and 0.9999.
get_recommended_mode(tr, node_id) ==
    Then(get_confidence(tr, node_id), LAMBDA confidence :
        IF confidence < 9500 THEN "python_only"
        ELSE IF confidence < 9990 THEN "canary_direct"
        ELSE IF confidence < 9999 THEN "dual_verify"
        ELSE "direct_only")

\* -------------------------------------------------- MetricsCollector (4.3)
AggregateMetrics(t, p, d, dv, e) ==
    [total_executions |-> t, python_executions |-> p, direct_executions |-> d,
     divergences |-> dv, errors |-> e]

\* MetricsCollector._update_aggregate on the aggregates dict.
_update_aggregate(mt, node_id, path, success, diverged) ==
    LET a == IF node_id \in DOMAIN mt THEN mt[node_id] ELSE AggregateMetrics(0, 0, 0, 0, 0)
        a2 == [total_executions |-> a.total_executions + 1,
               python_executions |-> a.python_executions + (IF path = "python" THEN 1 ELSE 0),
               direct_executions |-> a.direct_executions + (IF path = "python" THEN 0 ELSE 1),
               divergences |-> a.divergences + (IF diverged THEN 1 ELSE 0),
               errors |-> a.errors + (IF success THEN 0 ELSE 1)]
    IN [n \in DOMAIN mt \cup {node_id} |-> IF n = node_id THEN a2 ELSE mt[n]]

\* ---------------------------------------------------- ExecutionRouter (4.5)
Modes == {"python_only", "shadow_direct", "canary_direct", "dual_verify", "direct_only"}

RoutingDecision(mode, use_python, use_direct, is_shadow, verify_outputs) ==
    [mode |-> mode, use_python |-> use_python, use_direct |-> use_direct,
     is_shadow |-> is_shadow, verify_outputs |-> verify_outputs]

python_only == RoutingDecision("python_only", TRUE, FALSE, FALSE, FALSE)
shadow == RoutingDecision("shadow_direct", TRUE, TRUE, TRUE, FALSE)
dual_verify == RoutingDecision("dual_verify", TRUE, TRUE, FALSE, TRUE)
direct_only == RoutingDecision("direct_only", FALSE, TRUE, FALSE, FALSE)

\* RoutingConfig defaults, in units of 1/ConfScale.
canary_threshold == 9500
dual_verify_threshold == 9990
direct_only_threshold == 9999
canary_percentage == 500

\* A router whose canary decision for a mode keeps the request on the oracle.
_decision_for_mode_oracle_side(mode) ==
    CASE mode = "python_only" -> python_only
      [] mode = "shadow_direct" -> shadow
      [] mode = "canary_direct" -> RoutingDecision("canary_direct", TRUE, FALSE, FALSE, FALSE)
      [] mode = "dual_verify" -> dual_verify
      [] mode = "direct_only" -> direct_only
      [] OTHER -> python_only

_decision_for_mode(mode) ==
    CASE mode = "python_only" -> python_only
      [] mode = "shadow_direct" -> shadow
      [] mode = "canary_direct" -> RoutingDecision("canary_direct", FALSE, TRUE, FALSE, FALSE)
      [] mode = "dual_verify" -> dual_verify
      [] mode = "direct_only" -> direct_only
      [] OTHER -> python_only

\* json.dumps(inputs, sort_keys=True, default=str) for the inputs
\* {"value": x}: an int prints without a fraction, a float with one.
json_dumps(inp) ==
    CASE inp.ty = "int" /\ inp.v = 1 -> "{\"value\": 1}"
      [] inp.ty = "int" /\ inp.v = 6 -> "{\"value\": 6}"
      [] inp.ty = "float" /\ inp.v = 1 -> "{\"value\": 1.0}"
      [] inp.ty = "float" /\ inp.v = 6 -> "{\"value\": 6.0}"

\* _stable_hash: the md5 of the serialization, which stands for it here.
_stable_hash(inp) == json_dumps(inp)

\* int(md5(f"{node_id}:{_stable_hash(inputs)}"), 16) % 10000 for the inputs
\* of the three nodes.
HashBucket(node_id, inp) ==
    Then(_stable_hash(inp), LAMBDA h :
        CASE node_id = "n1" /\ h = "{\"value\": 1}" -> 1162
          [] node_id = "n1" /\ h = "{\"value\": 6}" -> 84
          [] node_id = "n1" /\ h = "{\"value\": 1.0}" -> 6732
          [] node_id = "n1" /\ h = "{\"value\": 6.0}" -> 1187
          [] node_id = "n2" /\ h = "{\"value\": 1}" -> 3763
          [] node_id = "n2" /\ h = "{\"value\": 6}" -> 547
          [] node_id = "n2" /\ h = "{\"value\": 1.0}" -> 6506
          [] node_id = "n2" /\ h = "{\"value\": 6.0}" -> 6718
          [] node_id = "n3" /\ h = "{\"value\": 1}" -> 4917
          [] node_id = "n3" /\ h = "{\"value\": 6}" -> 8232
          [] node_id = "n3" /\ h = "{\"value\": 1.0}" -> 16
          [] node_id = "n3" /\ h = "{\"value\": 6.0}" -> 2023)

_canary_decision(node_id, inp) ==
    IF HashBucket(node_id, inp) < canary_percentage
    THEN RoutingDecision("canary_direct", FALSE, TRUE, FALSE, FALSE)
    ELSE RoutingDecision("canary_direct", TRUE, FALSE, FALSE, FALSE)

\* sampled: the draw random.random() < direct_only_sample_rate.
_direct_only_decision(sampled) ==
    IF sampled THEN RoutingDecision("direct_only", TRUE, TRUE, FALSE, TRUE)
    ELSE direct_only

\* RoutingConfig: the three thresholds, in units of 1/ConfScale, and the
\* shadow_mode_enabled flag at its default.
RoutingConfig(canary, dual, direct) ==
    [canary_threshold |-> canary, dual_verify_threshold |-> dual,
     direct_only_threshold |-> direct, shadow_mode_enabled |-> TRUE]

DefaultRoutingConfig ==
    RoutingConfig(canary_threshold, dual_verify_threshold, direct_only_threshold)

\* A router that looks at the node override before the forced mode.
ExecutionRouter_route_override_first(rc, tr, ov, node_id, inp, force_mode, sampled) ==
    IF node_id \in DOMAIN ov THEN _decision_for_mode(ov[node_id])
    ELSE IF force_mode # "none" THEN _decision_for_mode(force_mode)
    ELSE Then(get_confidence(tr, node_id), LAMBDA confidence :
        IF node_id \notin DOMAIN tr
           \/ tr[node_id].total_executions < MIN_SAMPLE_SIZE
        THEN python_only
        ELSE IF confidence < rc.canary_threshold THEN python_only
        ELSE IF confidence < rc.dual_verify_threshold THEN _canary_decision(node_id, inp)
        ELSE IF confidence < rc.direct_only_threshold THEN dual_verify
        ELSE _direct_only_decision(sampled))

\* A router that shadows the nodes it has too little data for while
\* shadow_mode_enabled is set.
ExecutionRouter_route_shadow_enabled(rc, tr, ov, node_id, inp, force_mode, sampled) ==
    IF force_mode # "none" THEN _decision_for_mode(force_mode)
    ELSE IF node_id \in DOMAIN ov THEN _decision_for_mode(ov[node_id])
    ELSE Then(get_confidence(tr, node_id), LAMBDA confidence :
        IF node_id \notin DOMAIN tr
           \/ tr[node_id].total_executions < MIN_SAMPLE_SIZE
        THEN IF rc.shadow_mode_enabled THEN shadow ELSE python_only
        ELSE IF confidence < rc.canary_threshold THEN python_only
        ELSE IF confidence < rc.dual_verify_threshold THEN _canary_decision(node_id, inp)
        ELSE IF confidence < rc.direct_only_threshold THEN dual_verify
        ELSE _direct_only_decision(sampled))

\* A router whose threshold tests admit equality.
ExecutionRouter_route_inclusive(rc, tr, ov, node_id, inp, force_mode, sampled) ==
    IF force_mode # "none" THEN _decision_for_mode(force_mode)
    ELSE IF node_id \in DOMAIN ov THEN _decision_for_mode(ov[node_id])
    ELSE Then(get_confidence(tr, node_id), LAMBDA confidence :
        IF node_id \notin DOMAIN tr
           \/ tr[node_id].total_executions < MIN_SAMPLE_SIZE
        THEN python_only
        ELSE IF confidence <= rc.canary_threshold THEN python_only
        ELSE IF confidence <= rc.dual_verify_threshold THEN _canary_decision(node_id, inp)
        ELSE IF confidence <= rc.direct_only_threshold THEN dual_verify
        ELSE _direct_only_decision(sampled))

\* ExecutionRouter.route.  rc is the router's config, ov its node_overrides,
\* tr the tracker's metrics; force_mode is "none" for None.
ExecutionRouter_route(rc, tr, ov, node_id, inp, force_mode, sampled) ==
    IF force_mode # "none" THEN _decision_for_mode(force_mode)
    ELSE IF node_id \in DOMAIN ov THEN _decision_for_mode(ov[node_id])
    ELSE Then(get_confidence(tr, node_id), LAMBDA confidence :
        IF node_id \notin DOMAIN tr
           \/ tr[node_id].total_executions < MIN_SAMPLE_SIZE
        THEN python_only
        ELSE IF confidence < rc.canary_threshold THEN python_only
        ELSE IF confidence < rc.dual_verify_threshold THEN _canary_decision(node_id, inp)
        ELSE IF confidence < rc.direct_only_threshold THEN dual_verify
        ELSE _direct_only_decision(sampled))

\* A router that routes a node it has no data for as a fully trusted one.
route_unknown_trusted(tr, ov, node_id, inp, sampled) ==
    IF node_id \notin DOMAIN tr /\ node_id \notin DOMAIN ov
    THEN dual_verify
    ELSE ExecutionRouter_route(DefaultRoutingConfig, tr, ov, node_id, inp, "none", sampled)

\* route without force_mode and with the default thresholds, as
\* ExecutionOrchestrator.execute calls it.
route(tr, ov, node_id, inp, sampled) ==
    ExecutionRouter_route(DefaultRoutingConfig, tr, ov, node_id, inp, "none", sampled)


\* ------------------------------------------------------ DivergenceDatabase
\* The default of max_records_per_node.
max_records_per_node == 1000

\* A DivergenceRecord, by the fields the database reads and the record's id.
DivergenceRecord(id, node_id, mode) == [id |-> id, node_id |-> node_id, mode |-> mode]

\* seq[-k:] for k >= 0.
PyTail(seq, k) ==
    IF k = 0 THEN seq ELSE SubSeq(seq, Max(1, Len(seq) - k + 1), Len(seq))

\* A store that keeps the first capacity records of a node.
store_keep_oldest(recs, capacity, record) ==
    [n \in DOMAIN recs \cup {record.node_id} |->
        IF n = record.node_id
        THEN Then(Append(IF n \in DOMAIN recs THEN recs[n] ELSE <<>>, record),
                  LAMBDA appended :
                      IF Len(appended) > capacity
                      THEN SubSeq(appended, 1, capacity)
                      ELSE appended)
        ELSE recs[n]]

\* store on _records: append, then keep the last capacity records.
store(recs, capacity, record) ==
    [n \in DOMAIN recs \cup {record.node_id} |->
        IF n = record.node_id
        THEN Then(Append(IF n \in DOMAIN recs THEN recs[n] ELSE <<>>, record),
                  LAMBDA appended :
                      IF Len(appended) > capacity
                      THEN PyTail(appended, capacity)
                      ELSE appended)
        ELSE recs[n]]

\* clear on _records; node_id "all" stands for None.
clear(recs, node_id) ==
    IF node_id # "all" THEN [n \in DOMAIN recs \ {node_id} |-> recs[n]]
    ELSE [n \in {} |-> <<>>]

\* sum(len(r) for r in recs.values()) over the given nodes.
RECURSIVE TotalRecords(_, _)
TotalRecords(recs, nodes) ==
    IF nodes = {} THEN 0
    ELSE Then(CHOOSE n \in nodes : TRUE, LAMBDA n :
             Len(recs[n]) + TotalRecords(recs, nodes \ {n}))

\* What clear returns: the number of records it removed.
ClearCount(recs, node_id) ==
    IF node_id = "all" THEN TotalRecords(recs, DOMAIN recs)
    ELSE IF node_id \in DOMAIN recs THEN Len(recs[node_id]) ELSE 0

\* The harness's log of store calls, per node.
Logged(log, record) ==
    [n \in DOMAIN log \cup {record.node_id} |->
        IF n = record.node_id
        THEN Append(IF n \in DOMAIN log THEN log[n] ELSE <<>>, record)
        ELSE log[n]]

EmptyMap == [n \in {} |-> 0]

\* No file at the storage path; no save in progress.
NoDocument == [state |-> "absent", data |-> EmptyMap]
NoSave == [active |-> FALSE, opened |-> FALSE, data |-> EmptyMap]
\* No test_node call, no comparison and no serialize call made.
NoTest == [active |-> FALSE]
NoPair == [active |-> FALSE]
NoSnapshot == [taken |-> FALSE, data |-> EmptyMap]
NoCheck == [made |-> FALSE]

\* The divergence database is new and without a storage path.
NewStore ==
    records = EmptyMap /\ stored = EmptyMap /\ document = NoDocument /\ saving = NoSave
\* The tester, the comparator and serialize have not been called.
NoTools == difftest = NoTest /\ pair = NoPair /\ snapshot = NoSnapshot /\ checked = NoCheck

\* ------------------------------------- MetricsCollector.record_execution
MAX_EXECUTIONS_PER_NODE == 10000

\* An ExecutionMetrics sample (its duration is not modelled).
ExecutionMetrics(node_id, timestamp, path, success, diverged) ==
    [node_id |-> node_id, timestamp |-> timestamp, path |-> path,
     success |-> success, diverged |-> diverged]

NewCollector == [_executions |-> EmptyMap, _aggregates |-> EmptyMap]

\* The sample appended to the node's buffer, cut to its last window samples.
Buffered(mt, m, window) ==
    Then(Append(IF m.node_id \in DOMAIN mt._executions
                THEN mt._executions[m.node_id] ELSE <<>>, m),
         LAMBDA executions :
            [n \in DOMAIN mt._executions \cup {m.node_id} |->
                IF n # m.node_id THEN mt._executions[n]
                ELSE IF Len(executions) > window THEN PyTail(executions, window)
                ELSE executions])

\* A dict without the key k: d.pop(k, None).
Popped(d, k) == [n \in DOMAIN d \ {k} |-> d[n]]

\* A reset that clears the collector whatever node is named.
MetricsCollector_reset_all(mt, node_id) == NewCollector

\* MetricsCollector.reset; node_id is "none" for None.
MetricsCollector_reset(mt, node_id) ==
    IF node_id # "none"
    THEN [_executions |-> Popped(mt._executions, node_id),
          _aggregates |-> Popped(mt._aggregates, node_id)]
    ELSE NewCollector

\* A collector whose full buffer keeps its oldest samples.
MetricsCollector_record_execution_keep_oldest(mt, node_id, path, success, diverged) ==
    Then(ExecutionMetrics(node_id, time_time, path, success, diverged), LAMBDA m :
        [_executions |->
            [n \in DOMAIN mt._executions \cup {node_id} |->
                IF n # node_id THEN mt._executions[n]
                ELSE IF n \notin DOMAIN mt._executions THEN <<m>>
                ELSE IF Len(mt._executions[n]) >= MAX_EXECUTIONS_PER_NODE
                     THEN mt._executions[n]
                ELSE Append(mt._executions[n], m)],
         _aggregates |-> _update_aggregate(mt._aggregates, node_id, path, success, diverged)])

\* MetricsCollector.record_execution
MetricsCollector_record_execution(mt, node_id, path, success, diverged) ==
    Then(ExecutionMetrics(node_id, time_time, path, success, diverged), LAMBDA m :
        [_executions |-> Buffered(mt, m, MAX_EXECUTIONS_PER_NODE),
         _aggregates |-> _update_aggregate(mt._aggregates, node_id, path, success, diverged)])

\* ----------------------------------------------------- runtime invocations
RunOk(out) == [ok |-> TRUE, out |-> out, err |-> NoErr]
RunFail(e) == [ok |-> FALSE, out |-> EmptyOut, err |-> e]
NotRun == [ok |-> FALSE, out |-> EmptyOut, err |-> NoErr]

\* A handler invocation's behaviour: return a value, or raise.
FailChoice == [ty |-> "fail", v |-> 0, big |-> FALSE, sp |-> "finite"]
\* The handler is suspended when its caller is cancelled: CancelledError is
\* raised in it, which no "except Exception" catches.
CancelChoice == [ty |-> "cancel", v |-> 0, big |-> FALSE, sp |-> "finite"]

\* PythonRuntime.execute / DirectRuntime.execute: invocation k of the runtime
\* src for node_id, whose handler (if registered) behaves as choice says.
RuntimeExecute(src, handlers, node_id, choice, k) ==
    IF node_id \notin handlers THEN RunFail(Err(src, "nohandler", k))
    ELSE IF choice = FailChoice THEN RunFail(Err(src, "handler", k))
    ELSE IF choice = CancelChoice THEN RunFail(Err(src, "cancelled", k))
    ELSE RunOk(Out(choice))

\* ---------------------------------------------------------- orchestrator
ExecutionResult(output, path_used, success, error) ==
    [output |-> output, path_used |-> path_used, success |-> success, error |-> error]
NoResult == ExecutionResult(EmptyOut, "none", FALSE, NoErr)

\* direct_result is None exactly when has_direct is FALSE.
DualExecutionResult(python_result, direct_result, has_direct, diverged, details) ==
    [python_result |-> python_result, direct_result |-> direct_result,
     has_direct |-> has_direct, diverged |-> diverged, divergence_details |-> details]
NoDual == DualExecutionResult(NoResult, NoResult, FALSE, FALSE, "none")

\* The progress of one request: oracle / candidate invocations made, oracle
\* invocations made from an exception handler (fallbacks), the tracker and the
\* aggregates as updated so far, and the shadow launches made.
Ctx0 == [pyN |-> 0, dN |-> 0, fb |-> 0, tr |-> tracker, mt |-> metrics, launch |-> {}]

Ret(c, res) == [c |-> c, raised |-> FALSE, res |-> res, err |-> NoErr]
Raise(c, e) == [c |-> c, raised |-> TRUE, res |-> NoResult, err |-> e]
\* r raised what "except Exception" catches (CancelledError is not one).
Caught(r) == r.raised /\ r.err.kind # "cancelled"

_record_metrics(mt, node_id, path, success, diverged) ==
    IF cfg.hasMetrics
    THEN MetricsCollector_record_execution(mt, node_id, path, success, diverged)
    ELSE mt

\* e = [node, py, d, dec]: py[k] is the outcome of the k-th oracle invocation
\* of this request, d the outcome of its candidate invocation.
_execute_python_only(c, e) ==
    LET k == c.pyN + 1
        o == e.py[k]
        c1 == [c EXCEPT !.pyN = k,
                        !.mt = IF o.err.kind = "cancelled" THEN @
                               ELSE _record_metrics(@, e.node, "python", o.ok, FALSE)]
    IN IF o.ok THEN Ret(c1, ExecutionResult(o.out, "python", TRUE, NoErr))
       ELSE Raise(c1, o.err)

_execute_direct(c, e) ==
    IF ~cfg.hasDirect THEN Raise(c, Err("orchestrator", "noruntime", 0))
    ELSE LET o == e.d
             c1 == [c EXCEPT !.dN = @ + 1,
                             !.mt = IF o.err.kind = "cancelled" THEN @
                                    ELSE _record_metrics(@, e.node, "direct", o.ok, FALSE)]
         IN IF o.ok THEN Ret(c1, ExecutionResult(o.out, "direct", TRUE, NoErr))
            ELSE Raise(c1, o.err)

\* A shadow mode that awaits the candidate and lets its failure through.
_execute_shadow_mode_awaits(c, e) ==
    Then(_execute_python_only(c, e), LAMBDA r :
        IF r.raised \/ ~cfg.hasDirect THEN r
        ELSE IF e.d.ok THEN Ret([r.c EXCEPT !.dN = @ + 1], r.res)
        ELSE Raise([r.c EXCEPT !.dN = @ + 1], e.d.err))

_execute_shadow_mode(c, e) ==
    Then(_execute_python_only(c, e), LAMBDA r :
        IF r.raised THEN r
        ELSE IF cfg.hasShadow /\ cfg.hasDirect
             THEN Ret([r.c EXCEPT !.launch = {[node |-> e.node, out |-> r.res.output,
                                               success |-> r.res.success]}], r.res)
             ELSE r)

\* A canary mode that leaves the routing decision aside.
_execute_canary_mode_oracle(c, e) == _execute_python_only(c, e)

_execute_canary_mode(c, e) ==
    IF e.dec.use_direct /\ cfg.hasDirect
    THEN Then(_execute_direct(c, e), LAMBDA r :
             IF Caught(r) THEN _execute_python_only([r.c EXCEPT !.fb = @ + 1], e)
             ELSE r)
    ELSE _execute_python_only(c, e)

\* A comparison that never reports a difference.
DualCompare_never(python_output, direct_output) == "none"

\* The comparison of _execute_dual_verify: the comparator's, or Python's !=.
DualCompare(python_output, direct_output) ==
    IF cfg.hasComparator THEN compare(python_output, direct_output)
    ELSE IF PyNotEqual(python_output, direct_output) THEN "diff" ELSE "none"

\* The except branch of _execute_dual_verify: the oracle alone, once more.
DualFallback(c, e) ==
    Then(_execute_python_only([c EXCEPT !.fb = @ + 1], e), LAMBDA r :
        IF r.raised THEN r
        ELSE Ret(r.c, DualExecutionResult(r.res, NoResult, FALSE, TRUE, "error")))

_execute_dual_verify(c, e) ==
    IF ~cfg.hasDirect
    THEN Then(_execute_python_only(c, e), LAMBDA r :
             IF r.raised THEN r
             ELSE Ret(r.c, DualExecutionResult(r.res, NoResult, FALSE, FALSE, "none")))
    ELSE LET po == e.py[c.pyN + 1]
             do == e.d
             c1 == [c EXCEPT !.pyN = @ + 1, !.dN = @ + 1]    \* asyncio.gather of both
         IN IF po.err.kind = "cancelled" THEN Raise(c1, po.err)
            ELSE IF do.err.kind = "cancelled" THEN Raise(c1, do.err)
            ELSE IF ~(po.ok /\ do.ok) THEN DualFallback(c1, e)
            ELSE Then(DualCompare(po.out, do.out), LAMBDA cmp :
                    IF cmp = "raise" THEN DualFallback(c1, e)
                    ELSE Ret([c1 EXCEPT
                                !.tr = IF cfg.hasTracker
                                       THEN record_execution(@, e.node, cmp = "diff",
                                                             FALSE, FALSE)
                                       ELSE @,
                                !.mt = _record_metrics(
                                           _record_metrics(@, e.node, "python", TRUE,
                                                           cmp = "diff"),
                                           e.node, "direct", TRUE, cmp = "diff")],
                             DualExecutionResult(
                                 ExecutionResult(po.out, "python", TRUE, NoErr),
                                 ExecutionResult(do.out, "direct", TRUE, NoErr),
                                 TRUE, cmp = "diff", cmp)))

_execute_direct_only(c, e) ==
    IF ~cfg.hasDirect THEN _execute_python_only(c, e)
    ELSE IF e.dec.verify_outputs
         THEN Then(_execute_dual_verify(c, e), LAMBDA r :
                 IF r.raised THEN r
                 ELSE Ret(r.c, IF r.res.has_direct THEN r.res.direct_result
                               ELSE r.res.python_result))
         ELSE _execute_direct(c, e)

_adjust_decision_for_mode(mode) ==
    CASE mode = "python_only" -> python_only
      [] mode = "shadow_direct" -> shadow
      [] mode = "canary_direct" -> RoutingDecision("canary_direct", FALSE, TRUE, FALSE, FALSE)
      [] mode = "dual_verify" -> dual_verify
      [] mode = "direct_only" -> direct_only
      [] OTHER -> python_only

\* A per-mode path whose dual-verify branch hands out the candidate's result.
PerMode_candidate(c, e) ==
    CASE e.dec.mode = "python_only" -> _execute_python_only(c, e)
      [] e.dec.mode = "shadow_direct" -> _execute_shadow_mode(c, e)
      [] e.dec.mode = "canary_direct" -> _execute_canary_mode(c, e)
      [] e.dec.mode = "dual_verify" ->
            Then(_execute_dual_verify(c, e), LAMBDA r :
                IF r.raised THEN r
                ELSE Ret(r.c, IF r.res.has_direct THEN r.res.direct_result
                              ELSE r.res.python_result))
      [] e.dec.mode = "direct_only" -> _execute_direct_only(c, e)
      [] OTHER -> _execute_python_only(c, e)

\* The try block of execute: the per-mode path.
PerMode(c, e) ==
    CASE e.dec.mode = "python_only" -> _execute_python_only(c, e)
      [] e.dec.mode = "shadow_direct" -> _execute_shadow_mode(c, e)
      [] e.dec.mode = "canary_direct" -> _execute_canary_mode(c, e)
      [] e.dec.mode = "dual_verify" ->
            Then(_execute_dual_verify(c, e), LAMBDA r :
                IF r.raised THEN r ELSE Ret(r.c, r.res.python_result))
      [] e.dec.mode = "direct_only" -> _execute_direct_only(c, e)
      [] OTHER -> _execute_python_only(c, e)

\* A final fallback without the inner try: the oracle's failure propagates.
FinalFallback_propagates(c, e) == _execute_python_only([c EXCEPT !.fb = @ + 1], e)

\* A final fallback that reports the error of the request's first oracle
\* invocation.
FinalFallback_first(c, e) ==
    Then(_execute_python_only([c EXCEPT !.fb = @ + 1], e), LAMBDA r2 :
        IF Caught(r2) THEN Ret(r2.c, ExecutionResult(EmptyOut, "python", FALSE, e.py[1].err))
        ELSE r2)

\* The except branch of execute: the oracle alone; its failure is returned.
FinalFallback(c, e) ==
    Then(_execute_python_only([c EXCEPT !.fb = @ + 1], e), LAMBDA r2 :
        IF Caught(r2) THEN Ret(r2.c, ExecutionResult(EmptyOut, "python", FALSE, r2.err))
        ELSE r2)

\* ExecutionOrchestrator.execute once the decision is made.
execute(c, e) ==
    Then(PerMode(c, e), LAMBDA r : IF Caught(r) THEN FinalFallback(r.c, e) ELSE r)

\* ExecutionOrchestrator.execute_dual.
execute_dual(c, e) == _execute_dual_verify(c, e)


\* ------------------------------------------------------- recorded outcome
\* The call that returned last: its request, the runtime outcomes it consumed
\* (py: the oracle invocations in order, d: the candidate invocation), and
\* what reached the caller (raised: an exception escaped).
LastNone ==
    [op |-> "none", node |-> "n1", forced |-> "none", dec |-> python_only,
     raised |-> FALSE, res |-> NoResult, dual |-> NoDual, err |-> NoErr,
     pyN |-> 0, dN |-> 0, fb |-> 0, py |-> <<>>, d |-> NotRun,
     ret |-> 0, timedOut |-> FALSE, waited |-> {}, pendingAtReturn |-> 0,
     sinceCall |-> 0, mode |-> "none", inp |-> IntIn(1)]

Idle == last.op = "none"

DChoices == DValues \cup {FailChoice}

\* A shadow task whose candidate has been invoked by the time it is created.
ShadowTask_ran(l) ==
    [node |-> l.node, out |-> l.out, success |-> l.success,
     status |-> "done", d |-> RunFail(Err("direct", "handler", 1)), cmp |-> "none"]

\* The shadow task a request launched, appended to the tasks created so far.
ShadowTask(l) ==
    [node |-> l.node, out |-> l.out, success |-> l.success,
     status |-> "pending", d |-> NotRun, cmp |-> "none"]

Launch(launched) ==
    IF launched = {} THEN tasks
    ELSE Append(tasks, ShadowTask(CHOOSE l \in launched : TRUE))

\* ------------------------------------------------------------------ actions
\* The oracle handler of a request returns pv whenever it returns; fk tells
\* whether its k-th invocation raises instead.
PyChoice(pv, fails) == IF fails THEN FailChoice ELSE pv

\* await orchestrator.execute(node, {"value": inp}, mode=forced)
ExecuteWithin(calls, node, inp, forced, pv, f1, f2, f3, dch, sampled) ==
    /\ Idle
    /\ nOps < calls
    /\ LET dec == IF forced # "none" THEN _adjust_decision_for_mode(forced)
                  ELSE IF cfg.hasRouter
                       THEN route(tracker, overrides, node, inp, sampled)
                       ELSE python_only
           e == [node |-> node,
                 py |-> <<RuntimeExecute("python", pyHandlers, node, PyChoice(pv, f1), 1),
                          RuntimeExecute("python", pyHandlers, node, PyChoice(pv, f2), 2),
                          RuntimeExecute("python", pyHandlers, node, PyChoice(pv, f3), 3)>>,
                 d |-> RuntimeExecute("direct", dHandlers, node, dch, 1),
                 dec |-> dec]
       IN \E r \in {execute(Ctx0, e)} :
          /\ tracker' = r.c.tr
          /\ metrics' = r.c.mt
          /\ tasks' = Launch(r.c.launch)
          /\ last' = [LastNone EXCEPT
                        !.op = "execute", !.node = node, !.forced = forced,
                        !.inp = inp,
                        !.dec = dec, !.raised = r.raised, !.res = r.res,
                        !.err = r.err, !.pyN = r.c.pyN, !.dN = r.c.dN,
                        !.fb = r.c.fb, !.py = SubSeq(e.py, 1, r.c.pyN),
                        !.d = IF r.c.dN > 0 THEN e.d ELSE NotRun]
    /\ nOps' = nOps + 1
    /\ UNCHANGED <<cfg, pyHandlers, dHandlers, overrides, waiter>>
    /\ UNCHANGED <<records, stored, document, saving, difftest, checked, pair, snapshot>>

Execute(node, inp, forced, pv, f1, f2, f3, dch, sampled) ==
    ExecuteWithin(MaxOps, node, inp, forced, pv, f1, f2, f3, dch, sampled)

\* The caller cancels its execute(node, {"value": 1}, mode=forced) while the
\* handler invocation named by at (the k-th oracle invocation "py1".."py3",
\* or the candidate's "d") is suspended; the earlier invocations run as
\* pv, f1, f2 and dch say.  CancelledError reaches the caller.
CancelledExecute(node, forced, pv, f1, f2, dch, at) ==
    /\ Idle
    /\ nOps < MaxOps
    /\ LET dec == _adjust_decision_for_mode(forced)
           e == [node |-> node,
                 py |-> <<RuntimeExecute("python", pyHandlers, node,
                              IF at = "py1" THEN CancelChoice ELSE PyChoice(pv, f1), 1),
                          RuntimeExecute("python", pyHandlers, node,
                              IF at = "py2" THEN CancelChoice ELSE PyChoice(pv, f2), 2),
                          RuntimeExecute("python", pyHandlers, node,
                              IF at = "py3" THEN CancelChoice ELSE FailChoice, 3)>>,
                 d |-> RuntimeExecute("direct", dHandlers, node,
                              IF at = "d" THEN CancelChoice ELSE dch, 1),
                 dec |-> dec]
       IN \E r \in {execute(Ctx0, e)} :
          /\ r.raised
          /\ r.err.kind = "cancelled"
          /\ tracker' = r.c.tr
          /\ metrics' = r.c.mt
          /\ tasks' = Launch(r.c.launch)
          /\ last' = [LastNone EXCEPT
                        !.op = "execute_cancelled", !.node = node, !.forced = forced,
                        !.dec = dec, !.raised = TRUE, !.err = r.err,
                        !.pyN = r.c.pyN, !.dN = r.c.dN, !.fb = r.c.fb,
                        !.py = SubSeq(e.py, 1, r.c.pyN),
                        !.d = IF r.c.dN > 0 THEN e.d ELSE NotRun]
    /\ nOps' = nOps + 1
    /\ UNCHANGED <<cfg, pyHandlers, dHandlers, overrides, waiter>>
    /\ UNCHANGED <<records, stored, document, saving, difftest, checked, pair, snapshot>>

\* await orchestrator.execute_dual(node, inputs)
ExecuteDual(node, pv, f1, f2, dch) ==
    /\ Idle
    /\ nOps < MaxOps
    /\ LET e == [node |-> node,
                 py |-> <<RuntimeExecute("python", pyHandlers, node, PyChoice(pv, f1), 1),
                          RuntimeExecute("python", pyHandlers, node, PyChoice(pv, f2), 2)>>,
                 d |-> RuntimeExecute("direct", dHandlers, node, dch, 1),
                 dec |-> dual_verify]
       IN \E r \in {execute_dual(Ctx0, e)} :
          /\ tracker' = r.c.tr
          /\ metrics' = r.c.mt
          /\ last' = [LastNone EXCEPT
                        !.op = "execute_dual", !.node = node, !.dec = dual_verify,
                        !.raised = r.raised,
                        !.dual = IF r.raised THEN NoDual ELSE r.res,
                        !.err = r.err, !.pyN = r.c.pyN, !.dN = r.c.dN,
                        !.fb = r.c.fb, !.py = SubSeq(e.py, 1, r.c.pyN),
                        !.d = IF r.c.dN > 0 THEN e.d ELSE NotRun]
    /\ nOps' = nOps + 1
    /\ UNCHANGED <<cfg, pyHandlers, dHandlers, overrides, tasks, waiter>>
    /\ UNCHANGED <<records, stored, document, saving, difftest, checked, pair, snapshot>>

\* The caller takes the result of the call that returned.
Respond ==
    /\ ~Idle
    /\ last' = LastNone
    /\ UNCHANGED <<cfg, pyHandlers, dHandlers, overrides, tracker, metrics, tasks, waiter, nOps>>
    /\ UNCHANGED <<records, stored, document, saving, difftest, checked, pair, snapshot>>

\* ------------------------------------------------------- ShadowExecutor (4.6)
PendingIds == {i \in DOMAIN tasks : tasks[i].status = "pending"}
pending_count == Cardinality(PendingIds)

NoWaiter == [active |-> FALSE, tasks |-> {}, count |-> 0, hasTimeout |-> FALSE,
             launched |-> 0]

\* shadow_executor.execute_shadow(node, inputs, python_result), called directly.
execute_shadow(node, out, success) ==
    /\ Idle
    /\ nOps < MaxShadow
    /\ tasks' = Append(tasks, ShadowTask([node |-> node, out |-> Out(out), success |-> success]))
    /\ nOps' = nOps + 1
    /\ UNCHANGED <<cfg, pyHandlers, dHandlers, overrides, tracker, metrics, waiter, last>>
    /\ UNCHANGED <<records, stored, document, saving, difftest, checked, pair, snapshot>>

\* _shadow_execution_task of task i runs to its end, before or after the
\* caller takes the response; dch is what the candidate handler does.  The
\* shadow executor has a divergence database with the default capacity and
\* no storage path.
_shadow_execution_task(i, dch) ==
    /\ i \in PendingIds
    /\ LET t == tasks[i]
           o == RuntimeExecute("direct", dHandlers, t.node, dch, 1)
       IN \E cmp \in {IF o.ok THEN compare(t.out, o.out) ELSE "none"} :
          \* failed: the except branch was taken
          \E failed \in {~o.ok \/ cmp = "raise"}, diverged \in {~o.ok \/ cmp # "none"} :
          /\ tracker' = record_execution(tracker, t.node, diverged, ~t.success, failed)
          /\ metrics' = _record_metrics(metrics, t.node, "direct", ~failed, diverged)
          /\ tasks' = [tasks EXCEPT ![i] = [@ EXCEPT !.status = "done", !.d = o, !.cmp = cmp]]
          \* _record_divergence, for a difference the comparison reported
          /\ \E record \in {DivergenceRecord(i, t.node, "shadow")} :
                IF o.ok /\ cmp = "diff"
                THEN /\ records' = store(records, max_records_per_node, record)
                     /\ stored' = Logged(stored, record)
                ELSE UNCHANGED <<records, stored>>
    /\ UNCHANGED <<cfg, pyHandlers, dHandlers, overrides, waiter, last, nOps>>
    /\ UNCHANGED <<document, saving, difftest, checked, pair, snapshot>>

\* wait_for_pending(timeout) is called: it returns 0 at once when nothing is
\* pending, else it counts the pending tasks and awaits their gather.
WaitCall(hasTimeout) ==
    /\ Idle
    /\ ~waiter.active
    /\ IF PendingIds = {}
       THEN /\ last' = [LastNone EXCEPT !.op = "wait", !.ret = 0]
            /\ UNCHANGED waiter
       ELSE /\ waiter' = [active |-> TRUE, tasks |-> PendingIds,
                          count |-> pending_count, hasTimeout |-> hasTimeout,
                          launched |-> Len(tasks)]
            /\ UNCHANGED last
    /\ UNCHANGED <<cfg, pyHandlers, dHandlers, overrides, tracker, metrics, tasks, nOps>>
    /\ UNCHANGED <<records, stored, document, saving, difftest, checked, pair, snapshot>>

\* A wait that returns once the first of its tasks is done.
WaitReturn_first_completed ==
    /\ Idle
    /\ waiter.active
    /\ waiter.tasks \ PendingIds # {}
    /\ last' = [LastNone EXCEPT !.op = "wait", !.ret = waiter.count,
                                !.waited = waiter.tasks,
                                !.pendingAtReturn = pending_count,
                                !.sinceCall = Len(tasks) - waiter.launched]
    /\ waiter' = NoWaiter
    /\ UNCHANGED <<cfg, pyHandlers, dHandlers, overrides, tracker, metrics, tasks, nOps>>
    /\ UNCHANGED <<records, stored, document, saving, difftest, checked, pair, snapshot>>

\* The gather completed before the timeout.
WaitReturn ==
    /\ Idle
    /\ waiter.active
    /\ waiter.tasks \cap PendingIds = {}
    /\ last' = [LastNone EXCEPT !.op = "wait", !.ret = waiter.count,
                                !.waited = waiter.tasks,
                                !.pendingAtReturn = pending_count,
                                !.sinceCall = Len(tasks) - waiter.launched]
    /\ waiter' = NoWaiter
    /\ UNCHANGED <<cfg, pyHandlers, dHandlers, overrides, tracker, metrics, tasks, nOps>>
    /\ UNCHANGED <<records, stored, document, saving, difftest, checked, pair, snapshot>>

\* The timeout expired: asyncio.wait_for cancels the gather, which cancels
\* every task of it that is not done; a cancelled task records nothing.
WaitTimeout ==
    /\ Idle
    /\ waiter.active
    /\ waiter.hasTimeout
    /\ waiter.tasks \cap PendingIds # {}
    /\ tasks' = [i \in DOMAIN tasks |->
                    IF i \in waiter.tasks \cap PendingIds
                    THEN [tasks[i] EXCEPT !.status = "cancelled"]
                    ELSE tasks[i]]
    /\ last' = [LastNone EXCEPT !.op = "wait", !.ret = waiter.count,
                                !.timedOut = TRUE, !.waited = waiter.tasks,
                                !.pendingAtReturn = Cardinality(PendingIds \ waiter.tasks),
                                !.sinceCall = Len(tasks) - waiter.launched]
    /\ waiter' = NoWaiter
    /\ UNCHANGED <<cfg, pyHandlers, dHandlers, overrides, tracker, metrics, nOps>>
    /\ UNCHANGED <<records, stored, document, saving, difftest, checked, pair, snapshot>>

\* ------------------------------------------------------------ specifications
Config(dr, ro, tr, mc, se, cm) ==
    [hasDirect |-> dr, hasRouter |-> ro, hasTracker |-> tr,
     hasMetrics |-> mc, hasShadow |-> se, hasComparator |-> cm]

FullConfig == Config(TRUE, TRUE, TRUE, TRUE, TRUE, TRUE)

\* The orchestrators considered: every optional component given, exactly one
\* left out, or none given.
Configs ==
    {FullConfig, Config(FALSE, FALSE, FALSE, FALSE, FALSE, FALSE)}
    \cup {[FullConfig EXCEPT ![f] = FALSE] : f \in DOMAIN FullConfig}

\* ConfidenceTracker.deserialize: a tracker restored from a snapshot holding
\* that many executions of n1, none of them divergent; or a new tracker.
RestoredTotals == {230, 20000, 200000}
InitTrackers ==
    {EmptyMap} \cup {[n \in {"n1"} |-> RuntimeMetrics(t, 0, 0, 0)] : t \in RestoredTotals}

\* node_overrides as set_mode_override(n1, mode) leaves them.
InitOverrides == {[n \in {"n1"} |-> mode] : mode \in Modes}

\* The deployments considered: any of the orchestrators on a new tracker; the
\* full one on a restored tracker; the full one with a node override.
Init ==
    /\ pyHandlers = {"n1", "n2"}
    /\ dHandlers = {"n1"}
    /\ \/ cfg \in Configs /\ tracker = EmptyMap /\ overrides = EmptyMap
       \/ cfg = FullConfig /\ tracker \in InitTrackers /\ overrides = EmptyMap
       \/ cfg = FullConfig /\ tracker = EmptyMap /\ overrides \in InitOverrides
    /\ metrics = NewCollector
    /\ tasks = <<>>
    /\ waiter = NoWaiter
    /\ last = LastNone
    /\ nOps = 0
    /\ NewStore /\ NoTools

\* The behaviours of a request's handlers that can matter: a runtime without a
\* handler for the node fails whatever the handler would do, and a later
\* oracle invocation is made only after an earlier one of the request.
PyValuesOf(node) == IF node \in pyHandlers THEN PyValues ELSE {F(0)}
PyFails(node) == IF node \in pyHandlers THEN BOOLEAN ELSE {TRUE}
DChoicesOf(node) ==
    IF node \in dHandlers /\ cfg.hasDirect THEN DChoices ELSE {FailChoice}
\* The draws of random.random() that route can tell apart.
Draws(node, inp) ==
    IF cfg.hasRouter /\ route(tracker, overrides, node, inp, TRUE)
                          # route(tracker, overrides, node, inp, FALSE)
    THEN BOOLEAN ELSE {FALSE}

Next ==
    \/ \E node \in Nodes, forced \in Modes :
          \E pv \in PyValuesOf(node), f1 \in PyFails(node), f2 \in PyFails(node),
             dch \in DChoicesOf(node) :
             \E f3 \in (IF f1 /\ f2 THEN PyFails(node) ELSE {TRUE}) :
                Execute(node, IntIn(1), forced, pv, f1, f2, f3, dch, FALSE)
    \/ \E node \in Nodes, inp \in Inputs :
          \E pv \in PyValuesOf(node), f1 \in PyFails(node), f2 \in PyFails(node),
             dch \in DChoicesOf(node), sampled \in Draws(node, inp) :
             \E f3 \in (IF f1 /\ f2 THEN PyFails(node) ELSE {TRUE}) :
                Execute(node, inp, "none", pv, f1, f2, f3, dch, sampled)
    \/ \E node \in Nodes :
          \E pv \in PyValuesOf(node), f1 \in PyFails(node), f2 \in PyFails(node),
             dch \in DChoicesOf(node) :
             ExecuteDual(node, pv, f1, f2, dch)
    \/ \E node \in Nodes, forced \in Modes :
          \E pv \in PyValuesOf(node), f1 \in PyFails(node), f2 \in PyFails(node),
             dch \in DChoicesOf(node), at \in {"py1", "py2", "py3", "d"} :
             CancelledExecute(node, forced, pv, f1, f2, dch, at)
    \/ Respond
    \/ \E i \in DOMAIN tasks, dch \in DChoices : _shadow_execution_task(i, dch)

Spec == Init /\ [][Next]_vars

\* The shadow executor, driven through its API and by the orchestrator in
\* shadow mode.
InitShadow ==
    /\ cfg = FullConfig
    /\ pyHandlers = {"n1", "n2"}
    /\ dHandlers = {"n1"}
    /\ overrides = EmptyMap
    /\ tracker = EmptyMap
    /\ metrics = NewCollector
    /\ tasks = <<>>
    /\ waiter = NoWaiter
    /\ last = LastNone
    /\ nOps = 0
    /\ NewStore /\ NoTools

\* The execute_shadow calls considered: a node with a candidate handler (its
\* oracle result a float, an int beyond the float range, or a failed result)
\* and a node without one.
ShadowRequests ==
    {[node |-> "n1", out |-> F(0), success |-> TRUE],
     [node |-> "n1", out |-> HugeInt, success |-> TRUE],
     [node |-> "n1", out |-> F(0), success |-> FALSE],
     [node |-> "n2", out |-> F(0), success |-> TRUE]}

NextShadow ==
    \/ \E rq \in ShadowRequests : execute_shadow(rq.node, rq.out, rq.success)
    \/ \E pv \in PyValuesOf("n1"), f1 \in PyFails("n1"), f2 \in PyFails("n1") :
          Execute("n1", IntIn(1), "shadow_direct", pv, f1, f2, TRUE, FailChoice, FALSE)
    \/ \E i \in DOMAIN tasks, dch \in DChoices : _shadow_execution_task(i, dch)
    \/ \E hasTimeout \in BOOLEAN : WaitCall(hasTimeout)
    \/ WaitReturn
    \/ WaitTimeout
    \/ Respond

SpecShadow == InitShadow /\ [][NextShadow]_vars

\* The event loop runs every task it holds: a shadow task whose candidate
\* handler terminates runs to its end.
TaskIds == 1..Max(MaxShadow, MaxOps)
SpecShadowFair ==
    SpecShadow /\ \A i \in TaskIds :
                    WF_vars(\E dch \in DChoices : _shadow_execution_task(i, dch))

\* ------------------------------------------------------------- properties
\* Every oracle invocation made by the call that returned last succeeded.
OracleAllOk == \A k \in 1..Len(last.py) : last.py[k].ok

\* The oracle invocation made last by the call that returned last.
LastOracle == last.py[Len(last.py)]

\* C1: whatever the mode (forced or routed) and whatever the oracle and the
\* candidate handlers do (return, raise, not registered), execute returns an
\* ExecutionResult and no exception escapes to the caller.
C1_ExecuteAlwaysReturns ==
    last.op = "execute" =>
        /\ ~last.raised
        /\ last.res.path_used \in {"python", "direct"}

\* An execute call in which the gather of dual-verify, its fallback and the
\* final fallback all failed, and which still returned a result.
C1_Witness ==
    /\ last.op = "execute"
    /\ last.dec.mode = "dual_verify"
    /\ last.pyN = 3
    /\ ~last.res.success

\* C2: whatever the oracle and the candidate handlers do, execute_dual
\* returns a DualExecutionResult and no exception escapes to the caller.
C2_ExecuteDualAlwaysReturns ==
    last.op = "execute_dual" => ~last.raised

\* Equality of two outputs as _execute_dual_verify decides it: under the
\* comparator when there is one, with == otherwise.
OutputsEqual(o, c) == IF cfg.hasComparator THEN compare(o, c) = "none" ELSE o = c

\* C3: when the oracle and the candidate both return an output, execute_dual
\* returns the oracle's output as the primary result, with diverged true when
\* the outputs are not equal under the comparator and false when they are.
C3_DualReportsDivergence ==
    (/\ last.op = "execute_dual"
     /\ last.dN = 1 /\ last.d.ok
     /\ OracleAllOk) =>
        /\ ~last.raised
        /\ last.dual.python_result.path_used = "python"
        /\ last.dual.python_result.output = last.py[1].out
        /\ last.dual.diverged = ~OutputsEqual(last.py[1].out, last.d.out)

\* execute_dual returned with diverged set for two outputs the comparator
\* tells apart.
C3_Witness ==
    /\ last.op = "execute_dual"
    /\ cfg.hasComparator
    /\ last.dN = 1 /\ last.d.ok
    /\ OracleAllOk
    /\ compare(last.py[1].out, last.d.out) = "diff"
    /\ last.dual.diverged

\* The call that returned last ran in dual-verify mode.
InDualVerify ==
    \/ last.op = "execute" /\ last.dec.mode = "dual_verify"
    \/ last.op = "execute_dual"

\* The ExecutionResult the caller of a dual-verify request reads.
DualPrimary == IF last.op = "execute" THEN last.res ELSE last.dual.python_result

\* C4: in dual-verify mode (execute in that mode, or execute_dual), when the
\* oracle handler succeeds the caller gets the oracle's result (path python,
\* the oracle's output), whatever the candidate does.
C4_DualReturnsOracle ==
    (InDualVerify /\ OracleAllOk) =>
        /\ ~last.raised
        /\ last.pyN >= 1
        /\ DualPrimary.success
        /\ DualPrimary.path_used = "python"
        /\ DualPrimary.output = LastOracle.out

\* A dual-verify execute whose candidate returned something else than the
\* oracle, and one whose candidate failed.
C4_Witness ==
    /\ last.op = "execute"
    /\ last.dec.mode = "dual_verify"
    /\ OracleAllOk
    /\ last.dN = 1
    /\ \/ ~last.d.ok
       \/ last.d.ok /\ last.d.out # last.py[1].out

\* What the oracle outcomes of a shadow-mode request alone determine: the
\* first oracle result, else the fallback's, else the fallback's failure.
ShadowExpected ==
    IF last.py[1].ok THEN ExecutionResult(last.py[1].out, "python", TRUE, NoErr)
    ELSE IF last.py[2].ok THEN ExecutionResult(last.py[2].out, "python", TRUE, NoErr)
    ELSE ExecutionResult(EmptyOut, "python", FALSE, last.py[2].err)

\* C5: in shadow mode the response of execute is a function of the oracle's
\* outcomes only: the candidate is not awaited for it, and whatever the
\* candidate does, before or after the response, no candidate failure shows
\* in it.
C5_ShadowResponseIndependent ==
    (last.op = "execute" /\ last.dec.mode = "shadow_direct") =>
        /\ ~last.raised
        /\ last.dN = 0
        /\ last.res = ShadowExpected
        /\ last.res.error.src # "direct"

\* A shadow-mode response not yet taken whose shadow task has already
\* failed in the candidate.
C5_Witness ==
    /\ last.op = "execute"
    /\ last.dec.mode = "shadow_direct"
    /\ last.res.success
    /\ \E i \in DOMAIN tasks :
          /\ tasks[i].node = last.node
          /\ tasks[i].status = "done"
          /\ ~tasks[i].d.ok

\* C6: within one execute call the oracle-only fallback is attempted at most
\* once, whatever the mode and whatever fails.
C6_FallbackOnce ==
    last.op = "execute" => last.fb <= 1

\* C7: execute succeeds with the output of the path that ran whenever every
\* oracle invocation it made succeeded; it fails only when the final oracle
\* fallback failed, and then with an empty output and that failure's error.
C7_TwoOutcomes ==
    last.op = "execute" =>
        /\ ~last.raised
        /\ OracleAllOk =>
              /\ last.res.success
              /\ last.res.error = NoErr
              /\ \/ last.res.path_used = "python" /\ last.pyN >= 1
                                                  /\ last.res.output = LastOracle.out
                 \/ last.res.path_used = "direct" /\ last.d.ok
                                                  /\ last.res.output = last.d.out
        /\ ~last.res.success =>
              /\ last.fb >= 1
              /\ ~LastOracle.ok
              /\ last.res.output = EmptyOut
              /\ last.res.error = LastOracle.err

\* A canary request whose candidate failed and whose two oracle fallbacks
\* failed too.
C7_Witness ==
    /\ last.op = "execute"
    /\ last.dec.mode = "canary_direct"
    /\ last.dN = 1
    /\ last.pyN = 2
    /\ ~last.res.success

\* The execute_shadow calls made for node, and those among them of a kind.
ShadowCalls(node) == {i \in DOMAIN tasks : tasks[i].node = node}
CandidateFailed(node) == {i \in ShadowCalls(node) : ~tasks[i].d.ok}
CandidateDiffered(node) == {i \in ShadowCalls(node) : tasks[i].d.ok /\ tasks[i].cmp # "none"}
TrackedOrZero(node) ==
    IF node \in DOMAIN tracker THEN tracker[node] ELSE RuntimeMetrics(0, 0, 0, 0)

\* C8: once every shadow task has run to completion, the tracker holds for
\* each node as many executions as execute_shadow calls, as many divergences
\* as calls whose candidate differed or failed, and as many direct_errors as
\* calls whose candidate handler failed.
C8_ShadowCounts ==
    (\A i \in DOMAIN tasks : tasks[i].status = "done") =>
        \A node \in Nodes :
            /\ TrackedOrZero(node).total_executions = Cardinality(ShadowCalls(node))
            /\ TrackedOrZero(node).divergences =
                  Cardinality(CandidateFailed(node) \cup CandidateDiffered(node))
            /\ TrackedOrZero(node).direct_errors = Cardinality(CandidateFailed(node))

\* C9: the tasks in flight when the timeout of wait_for_pending expires are
\* not cancelled.
C9_TimeoutKeepsTasks ==
    (last.op = "wait" /\ last.timedOut) =>
        \A i \in last.waited : tasks[i].status # "cancelled"

\* C10: wait_for_pending returns the number of tasks pending when it returns.
C10_ReturnsStillPending ==
    last.op = "wait" => last.ret = last.pendingAtReturn

\* C11: the in-flight shadow tasks stay within a maximum smaller than the
\* number of execute_shadow calls made: a call made at the bound is dropped.
C11_InFlightBounded ==
    pending_count <= MaxShadow - 1

\* C12: a step that creates a shadow task (execute_shadow, or execute in
\* shadow mode) adds exactly one task, which is pending with its candidate
\* not yet invoked, runs no other task and records nothing in the tracker;
\* the shadow-mode response it produces has not waited for the candidate.
C12_NonBlocking ==
    [][Len(tasks') > Len(tasks) =>
          /\ Len(tasks') = Len(tasks) + 1
          /\ SubSeq(tasks', 1, Len(tasks)) = tasks
          /\ tasks'[Len(tasks')].status = "pending"
          /\ tasks'[Len(tasks')].d = NotRun
          /\ tracker' = tracker
          /\ last'.op = "execute" =>
                /\ last'.dec.mode = "shadow_direct"
                /\ last'.dN = 0
                /\ ~last'.raised]_vars

\* A shadow-mode response with its shadow task created and the candidate
\* not yet invoked.
C12_Witness ==
    /\ last.op = "execute"
    /\ last.dec.mode = "shadow_direct"
    /\ Len(tasks) >= 1
    /\ tasks[Len(tasks)].node = last.node
    /\ tasks[Len(tasks)].status = "pending"
    /\ tasks[Len(tasks)].d = NotRun

\* The shadow tasks of node that have run to completion.
DoneOf(node) == {i \in ShadowCalls(node) : tasks[i].status = "done"}

\* C13: whatever the order in which the shadow tasks complete, the tracker's
\* counters of a node are determined by the set of its completed tasks and
\* their outcomes: as many executions as completed tasks, and each flag
\* counted once per task that raised it.
C13_OrderIndependent ==
    \A node \in Nodes :
        Counters(TrackedOrZero(node)) =
            <<Cardinality(DoneOf(node)),
              Cardinality({i \in DoneOf(node) : ~tasks[i].d.ok \/ tasks[i].cmp # "none"}),
              Cardinality({i \in DoneOf(node) : ~tasks[i].success}),
              Cardinality({i \in DoneOf(node) : ~tasks[i].d.ok \/ tasks[i].cmp = "raise"})>>

\* Two tasks of a node in flight together, completed in the reverse of the
\* order of their creation, with different outcomes.
C13_Witness ==
    \E i, j \in DOMAIN tasks :
        /\ i < j
        /\ tasks[i].node = tasks[j].node
        /\ tasks[i].status = "pending"
        /\ tasks[j].status = "done"
        /\ tasks[j].cmp = "diff"

\* C14: a cancelled execute call adds no sample to the metrics aggregates
\* and no execution to the tracker, whatever the mode and whichever handler
\* invocation was in flight when the cancellation arrived.
C14_CancelRecordsNothing ==
    [][last'.op = "execute_cancelled" /\ last.op = "none" =>
          /\ metrics' = metrics
          /\ tracker' = tracker]_vars

\* ------------------------------------------- the tracker through its API
\* record_execution calls per behaviour.
MaxRec == 2
TrackerNodes == {"n1", "n2"}

\* Snapshots given to ConfidenceTracker.deserialize: (total, divergences) of
\* n1, below the sample gate and on the low side of each threshold.
SnapshotCounts ==
    {<<99, 0>>, <<99, 99>>, <<200, 100>>, <<205, 0>>, <<10813, 0>>, <<108230, 0>>}
TrackerSnapshots ==
    {EmptyMap} \cup
    {[n \in {"n1"} |-> RuntimeMetrics(sc[1], sc[2], 0, 0)] : sc \in SnapshotCounts}

InitTracker ==
    /\ cfg = FullConfig
    /\ pyHandlers = {"n1", "n2"}
    /\ dHandlers = {"n1"}
    /\ overrides = EmptyMap
    /\ tracker \in TrackerSnapshots
    /\ metrics = NewCollector
    /\ tasks = <<>>
    /\ waiter = NoWaiter
    /\ last = LastNone
    /\ nOps = 0
    /\ NewStore /\ NoTools

\* tracker.record_execution(node, diverged, python_error, direct_error)
RecordExecution(node, diverged, python_error, direct_error) ==
    /\ nOps < MaxRec
    /\ tracker' = record_execution(tracker, node, diverged, python_error, direct_error)
    /\ last' = [LastNone EXCEPT !.op = "record_execution", !.node = node]
    /\ nOps' = nOps + 1
    /\ UNCHANGED <<cfg, pyHandlers, dHandlers, overrides, metrics, tasks, waiter>>
    /\ snapshot' = NoSnapshot
    /\ UNCHANGED <<records, stored, document, saving, difftest, checked, pair>>

\* tracker.reset_metrics(node)
ResetMetrics(node) ==
    /\ last.op # "reset_metrics"
    /\ tracker' = reset_metrics(tracker, node)
    /\ last' = [LastNone EXCEPT !.op = "reset_metrics", !.node = node]
    /\ UNCHANGED <<cfg, pyHandlers, dHandlers, overrides, metrics, tasks, waiter, nOps>>
    /\ snapshot' = NoSnapshot
    /\ UNCHANGED <<records, stored, document, saving, difftest, checked, pair>>

\* tracker.get_confidence(node)
GetConfidence(node) ==
    /\ last' = [LastNone EXCEPT !.op = "get_confidence", !.node = node,
                                !.ret = get_confidence(tracker, node)]
    /\ UNCHANGED <<cfg, pyHandlers, dHandlers, overrides, tracker, metrics, tasks,
                   waiter, nOps>>
    /\ snapshot' = NoSnapshot
    /\ UNCHANGED <<records, stored, document, saving, difftest, checked, pair>>

\* tracker.get_recommended_mode(node)
GetRecommendedMode(node) ==
    /\ last' = [LastNone EXCEPT !.op = "get_recommended_mode", !.node = node,
                                !.mode = get_recommended_mode(tracker, node)]
    /\ UNCHANGED <<cfg, pyHandlers, dHandlers, overrides, tracker, metrics, tasks,
                   waiter, nOps>>
    /\ snapshot' = NoSnapshot
    /\ UNCHANGED <<records, stored, document, saving, difftest, checked, pair>>

\* tracker = ConfidenceTracker.deserialize(tracker.serialize())
SerializeDeserialize ==
    /\ last.op # "deserialize"
    /\ snapshot' = [taken |-> TRUE, data |-> serialize(tracker)]
    /\ tracker' = deserialize(snapshot'.data)
    /\ last' = [LastNone EXCEPT !.op = "deserialize"]
    /\ UNCHANGED <<cfg, pyHandlers, dHandlers, overrides, metrics, tasks, waiter, nOps,
                   records, stored, document, saving, difftest, checked, pair>>

NextTracker ==
    \/ SerializeDeserialize
    \/ \E node \in TrackerNodes, diverged \in BOOLEAN, python_error \in BOOLEAN,
          direct_error \in BOOLEAN :
          RecordExecution(node, diverged, python_error, direct_error)
    \/ \E node \in TrackerNodes : ResetMetrics(node)
    \/ \E node \in TrackerNodes : GetConfidence(node)
    \/ \E node \in TrackerNodes : GetRecommendedMode(node)

SpecTracker == InitTracker /\ [][NextTracker]_vars

\* The counters the tracker tr holds for node (zero when it is not tracked).
Tracked(tr, node) == IF node \in DOMAIN tr THEN tr[node] ELSE RuntimeMetrics(0, 0, 0, 0)

\* C15: after any sequence of record_execution and reset_metrics calls, every
\* tracked node has divergences, python_errors and direct_errors at most its
\* total.
C15_CountersWithinTotal ==
    \A n \in DOMAIN tracker :
        /\ tracker[n].divergences <= tracker[n].total_executions
        /\ tracker[n].python_errors <= tracker[n].total_executions
        /\ tracker[n].direct_errors <= tracker[n].total_executions

\* A node recorded once, from nothing, with every flag set: each counter
\* equals the total.
C15_Witness ==
    /\ last.op = "record_execution"
    /\ last.node = "n1"
    /\ "n1" \in DOMAIN tracker
    /\ tracker["n1"] = RuntimeMetrics(1, 1, 1, 1)
    /\ nOps = 1

\* Some counter of node is lower in tracker b than in tracker a.
Decreased(a, b, node) ==
    \/ Tracked(b, node).total_executions < Tracked(a, node).total_executions
    \/ Tracked(b, node).divergences < Tracked(a, node).divergences
    \/ Tracked(b, node).python_errors < Tracked(a, node).python_errors
    \/ Tracked(b, node).direct_errors < Tracked(a, node).direct_errors

\* What one record_execution call for node does to its counters.
RecordedOnce(a, b, node) ==
    /\ node \in DOMAIN b
    /\ b[node].total_executions = Tracked(a, node).total_executions + 1
    /\ b[node].divergences - Tracked(a, node).divergences \in {0, 1}
    /\ b[node].python_errors - Tracked(a, node).python_errors \in {0, 1}
    /\ b[node].direct_errors - Tracked(a, node).direct_errors \in {0, 1}

\* C16: a record_execution call raises the total of its node by exactly one,
\* lowers no counter and leaves every other node as it was; a counter goes
\* down only in a reset_metrics call for that node.
C16_CountersMonotone ==
    [][/\ tracker' # tracker /\ last'.op = "record_execution" =>
            /\ RecordedOnce(tracker, tracker', last'.node)
            /\ DOMAIN tracker' = DOMAIN tracker \cup {last'.node}
            /\ \A n \in DOMAIN tracker \ {last'.node} : tracker'[n] = tracker[n]
       /\ \A n \in TrackerNodes :
            Decreased(tracker, tracker', n) =>
                last'.op = "reset_metrics" /\ last'.node = n]_vars

\* n2 recorded twice next to a restored n1 that kept its counters.
C16_Witness ==
    /\ last.op = "record_execution"
    /\ last.node = "n2"
    /\ DOMAIN tracker = {"n1", "n2"}
    /\ tracker["n1"] = RuntimeMetrics(99, 99, 0, 0)
    /\ tracker["n2"].total_executions = 2

\* C17: get_confidence answers 0.0 for a node the tracker has never seen and
\* for a node with fewer than MIN_SAMPLE_SIZE executions, whatever its
\* divergences.
C17_BelowSampleSizeIsZero ==
    last.op = "get_confidence" /\ Tracked(tracker, last.node).total_executions < MIN_SAMPLE_SIZE
        => last.ret = 0

\* 99 executions without a divergence still give 0.0.
C17_Witness ==
    /\ last.op = "get_confidence"
    /\ last.node = "n1"
    /\ "n1" \in DOMAIN tracker
    /\ tracker["n1"] = RuntimeMetrics(99, 0, 0, 0)
    /\ last.ret = 0

\* The band of a confidence c (in units of 1/ConfScale) under the literals
\* 0.95, 0.999 and 0.9999.
Band(c) ==
    CASE c < 9500 -> "python_only"
      [] 9500 <= c /\ c < 9990 -> "canary_direct"
      [] 9990 <= c /\ c < 9999 -> "dual_verify"
      [] 9999 <= c -> "direct_only"

\* The recommended mode of a node with no divergence, by its number of
\* executions; the boundaries are where the Wilson bound crosses a threshold.
CleanBand(total) ==
    CASE total < 206 -> "python_only"
      [] 206 <= total /\ total < 10814 -> "canary_direct"
      [] 10814 <= total /\ total < 108231 -> "dual_verify"
      [] 108231 <= total -> "direct_only"

ThresholdValues == {canary_threshold, dual_verify_threshold, direct_only_threshold}

\* RoutingConfig checks nothing: any triple can be configured.
RoutingConfigs ==
    {[RoutingConfig(c, dv, d) EXCEPT !.shadow_mode_enabled = enabled] :
        c \in ThresholdValues, dv \in ThresholdValues, d \in ThresholdValues,
        enabled \in BOOLEAN}

\* Clean executions of n1 in the restored tracker: below the sample gate, at
\* it (confidence 0.9023), and where the confidence reaches 0.95, 0.999 and
\* 0.9999.
RouterTotals == {99, 100, 206, 10814, 108231}
RouterTrackers ==
    {EmptyMap} \cup {[n \in {"n1"} |-> RuntimeMetrics(t, 0, 0, 0)] : t \in RouterTotals}

RouterNodes == {"n1", "n2"}
\* The inputs routed: {"value": 1}, {"value": 6} and {"value": 6.0}.
RouteInputs == Inputs \cup {FloatIn(6)}
ForceModes == Modes \cup {"none"}

InitRouter ==
    /\ cfg \in RoutingConfigs
    /\ pyHandlers = {"n1", "n2"}
    /\ dHandlers = {"n1"}
    /\ overrides = EmptyMap
    /\ tracker \in RouterTrackers
    /\ metrics = NewCollector
    /\ tasks = <<>>
    /\ waiter = NoWaiter
    /\ last = LastNone
    /\ nOps = 0
    /\ NewStore /\ NoTools

\* router.set_mode_override(node, mode)
set_mode_override(node, mode) ==
    /\ overrides' = [n \in DOMAIN overrides \cup {node} |->
                        IF n = node THEN mode ELSE overrides[n]]
    /\ last' = [LastNone EXCEPT !.op = "set_mode_override", !.node = node, !.mode = mode]
    /\ UNCHANGED <<cfg, pyHandlers, dHandlers, tracker, metrics, tasks, waiter, nOps>>
    /\ UNCHANGED <<records, stored, document, saving, difftest, checked, pair, snapshot>>

\* router.clear_mode_override(node)
clear_mode_override(node) ==
    /\ overrides' = [n \in DOMAIN overrides \ {node} |-> overrides[n]]
    /\ last' = [LastNone EXCEPT !.op = "clear_mode_override", !.node = node]
    /\ UNCHANGED <<cfg, pyHandlers, dHandlers, tracker, metrics, tasks, waiter, nOps>>
    /\ UNCHANGED <<records, stored, document, saving, difftest, checked, pair, snapshot>>

\* router.route(node, {"value": inp}, force_mode)
Route(node, inp, force_mode, sampled) ==
    /\ last' = [LastNone EXCEPT
                   !.op = "route", !.node = node, !.forced = force_mode, !.inp = inp,
                   !.dec = ExecutionRouter_route(cfg, tracker, overrides, node, inp,
                                                 force_mode, sampled)]
    /\ UNCHANGED <<cfg, pyHandlers, dHandlers, overrides, tracker, metrics, tasks,
                   waiter, nOps>>
    /\ UNCHANGED <<records, stored, document, saving, difftest, checked, pair, snapshot>>

NextRouter ==
    \/ \E mode \in Modes : set_mode_override("n1", mode)
    \/ clear_mode_override("n1")
    \/ \E node \in RouterNodes, inp \in RouteInputs, force_mode \in ForceModes,
          sampled \in BOOLEAN : Route(node, inp, force_mode, sampled)

SpecRouter == InitRouter /\ [][NextRouter]_vars

\* The decisions confidence-derived routing can give node under the current
\* config and tracker.
ConfidenceDecisions(node) ==
    {ExecutionRouter_route(cfg, tracker, EmptyMap, node, inp, "none", sampled) :
        inp \in RouteInputs, sampled \in BOOLEAN}

\* C19: a forced mode decides the request; without one a node override
\* decides it, whatever the node's confidence and sample count; without
\* either the decision is the confidence-derived one, which is again the case
\* once clear_mode_override has removed the node's override.
C19_RoutePrecedence ==
    /\ [](last.op = "route" =>
            /\ last.forced # "none" => last.dec = _decision_for_mode(last.forced)
            /\ last.forced = "none" /\ last.node \in DOMAIN overrides =>
                   last.dec = _decision_for_mode(overrides[last.node])
            /\ last.forced = "none" /\ last.node \notin DOMAIN overrides =>
                   last.dec \in ConfidenceDecisions(last.node))
    /\ [][last'.op = "clear_mode_override" => last'.node \notin DOMAIN overrides']_vars

\* A forced mode against a different override, on a node whose confidence
\* alone would give direct-only.
C19_Witness ==
    /\ last.op = "route"
    /\ last.node = "n1"
    /\ last.forced = "python_only"
    /\ "n1" \in DOMAIN overrides
    /\ overrides["n1"] = "dual_verify"
    /\ cfg = DefaultRoutingConfig
    /\ "n1" \in DOMAIN tracker
    /\ tracker["n1"].total_executions = 108231
    /\ last.dec = python_only

\* The thresholds are in order.
Ordered(rc) ==
    /\ rc.canary_threshold <= rc.dual_verify_threshold
    /\ rc.dual_verify_threshold <= rc.direct_only_threshold

\* The bands of a routing decision dec for a node with that total and
\* confidence c under the thresholds rc.
RouteBands(rc, total, c, dec) ==
    /\ total < MIN_SAMPLE_SIZE \/ c < rc.canary_threshold => dec = python_only
    /\ /\ total >= MIN_SAMPLE_SIZE
       /\ rc.canary_threshold <= c
       /\ c < rc.dual_verify_threshold
       => dec.mode = "canary_direct"
    /\ /\ total >= MIN_SAMPLE_SIZE
       /\ rc.dual_verify_threshold <= c
       /\ c < rc.direct_only_threshold
       => dec = dual_verify
    /\ total >= MIN_SAMPLE_SIZE /\ c >= rc.direct_only_threshold
       => dec.mode = "direct_only"

\* A route call that neither a forced mode nor an override decided.
RoutedByConfidence ==
    last.op = "route" /\ last.forced = "none" /\ last.node \notin DOMAIN overrides

\* C20: with no forced mode and no override, and thresholds configured in
\* order (canary <= dual_verify <= direct_only), route selects oracle-only
\* below the sample size or the canary threshold, canary from the canary
\* threshold up to the dual-verify one, dual-verify from there up to the
\* direct-only one, and direct-only from the direct-only threshold on.
C20_RouteBandsOrdered ==
    RoutedByConfidence /\ Ordered(cfg) =>
        RouteBands(cfg, Tracked(tracker, last.node).total_executions,
                   get_confidence(tracker, last.node), last.dec)

\* Confidence exactly at a non-default dual-verify threshold.
C20_Witness ==
    /\ RoutedByConfidence
    /\ cfg = RoutingConfig(9500, 9500, 9999)
    /\ last.node = "n1"
    /\ "n1" \in DOMAIN tracker
    /\ tracker["n1"].total_executions = 206
    /\ last.dec = dual_verify

\* C20 as stated, for every configured threshold triple.
C20_RouteBandsAnyTriple ==
    RoutedByConfidence =>
        RouteBands(cfg, Tracked(tracker, last.node).total_executions,
                   get_confidence(tracker, last.node), last.dec)

\* Python's == on two inputs {"value": x}: 6 == 6.0.
InputsEqual(a, b) == a.v = b.v

\* The canary side of a decision.
Side(dec) == <<dec.use_python, dec.use_direct>>

\* A route call that confidence put in the canary band.
CanaryRouted(l) ==
    l.op = "route" /\ l.forced = "none" /\ l.dec.mode = "canary_direct"

MaxStore == 4
StoreNodes == {"n1", "n2"}

\* In this specification cfg is the database's constructor arguments.
StoreConfig(capacity, has_path) ==
    [max_records_per_node |-> capacity, storage_path |-> has_path]

\* The capacities considered.
Capacities == {1, 2}

InitStore ==
    /\ cfg \in {StoreConfig(c, FALSE) : c \in Capacities}
    /\ pyHandlers = {"n1", "n2"}
    /\ dHandlers = {"n1"}
    /\ overrides = EmptyMap
    /\ tracker = EmptyMap
    /\ metrics = NewCollector
    /\ tasks = <<>>
    /\ waiter = NoWaiter
    /\ last = LastNone
    /\ nOps = 0
    /\ NewStore /\ NoTools

\* await db.store(record), the record's id being the number of the call.
\* With a storage path the call goes on to _save_to_file.
Store(node) ==
    /\ nOps < MaxStore
    /\ ~saving.active
    /\ \E record \in {DivergenceRecord(nOps, node, "shadow")} :
          /\ records' = store(records, cfg.max_records_per_node, record)
          /\ stored' = Logged(stored, record)
    /\ saving' = IF cfg.storage_path
                 THEN [active |-> TRUE, opened |-> FALSE, data |-> records']
                 ELSE saving
    /\ last' = [LastNone EXCEPT !.op = "store", !.node = node]
    /\ nOps' = nOps + 1
    /\ UNCHANGED <<cfg, pyHandlers, dHandlers, overrides, tracker, metrics, tasks, waiter,
                   document, difftest, checked, pair, snapshot>>

\* await db.clear(node); node "all" is clear().
Clear(node) ==
    /\ ~saving.active
    /\ last.op # "clear"
    /\ records' = clear(records, node)
    /\ stored' = clear(stored, node)
    /\ saving' = IF cfg.storage_path
                 THEN [active |-> TRUE, opened |-> FALSE, data |-> records']
                 ELSE saving
    /\ last' = [LastNone EXCEPT !.op = "clear", !.ret = ClearCount(records, node)]
    /\ UNCHANGED <<cfg, pyHandlers, dHandlers, overrides, tracker, metrics, tasks, waiter,
                   nOps, document, difftest, checked, pair, snapshot>>

NextStore ==
    \/ \E node \in StoreNodes : Store(node)
    \/ \E node \in StoreNodes \cup {"all"} : Clear(node)

SpecStore == InitStore /\ [][NextStore]_vars

\* C22: each node holds at most capacity records; once more than capacity
\* records have been stored for a node it holds exactly capacity records,
\* the last ones stored, in the order they were stored.
C22_KeepsNewest ==
    \A n \in DOMAIN records :
        /\ Len(records[n]) <= cfg.max_records_per_node
        /\ n \in DOMAIN stored
        /\ \E M \in {Len(stored[n])}, c \in {cfg.max_records_per_node} :
              IF M > c
              THEN /\ Len(records[n]) = c
                   /\ records[n] = SubSeq(stored[n], M - c + 1, M)
                   /\ records[n][1] = stored[n][M - c + 1]
              ELSE records[n] = stored[n]

\* Four records stored for n1 under capacity 2: the third and the fourth
\* are kept.
C22_Witness ==
    /\ cfg.max_records_per_node = 2
    /\ "n1" \in DOMAIN records
    /\ Len(stored["n1"]) = 4
    /\ records["n1"] = <<DivergenceRecord(2, "n1", "shadow"),
                         DivergenceRecord(3, "n1", "shadow")>>

\* The call l ran the comparison of _execute_dual_verify, which reported a
\* difference.
DualMismatch(l) ==
    /\ l.op \in {"execute", "execute_dual"}
    /\ l.dec.mode = "dual_verify"
    /\ l.dN = 1 /\ l.d.ok
    /\ Len(l.py) >= 1 /\ l.py[1].ok
    /\ DualCompare(l.py[1].out, l.d.out) = "diff"

\* A record for node is appended to the store in this step.
Appended(node) ==
    /\ node \in DOMAIN records'
    /\ Len(records'[node])
           = 1 + (IF node \in DOMAIN records THEN Len(records[node]) ELSE 0)
    /\ records'[node][Len(records'[node])].node_id = node

\* C23: a comparison that finds the oracle's and the candidate's outputs
\* unequal, in dual-verify mode or in a shadow task, appends a record for
\* that node to the divergence store.
C23_MismatchStored ==
    [][/\ last.op = "none" /\ DualMismatch(last') => Appended(last'.node)
       /\ \A i \in DOMAIN tasks :
            (/\ tasks[i].status = "pending" /\ tasks'[i].status = "done"
             /\ tasks'[i].d.ok /\ tasks'[i].cmp = "diff") => Appended(tasks[i].node)]_vars

\* ------------------------------------- the database with a storage path
\* _save_to_file step by step, as the file system sees it: the file at the
\* storage path is "absent", or holds a "complete" JSON document of data, or
\* is "empty" (opened with "w"), or holds a "partial" document.
InitDurable ==
    /\ cfg \in {StoreConfig(c, TRUE) : c \in Capacities}
    /\ pyHandlers = {"n1", "n2"}
    /\ dHandlers = {"n1"}
    /\ overrides = EmptyMap
    /\ tracker = EmptyMap
    /\ metrics = NewCollector
    /\ tasks = <<>>
    /\ waiter = NoWaiter
    /\ last = LastNone
    /\ nOps = 0
    /\ NewStore /\ NoTools

\* open(self.storage_path, "w"): the file is truncated.
SaveOpen ==
    /\ saving.active /\ ~saving.opened
    /\ document' = [state |-> "empty", data |-> EmptyMap]
    /\ saving' = [saving EXCEPT !.opened = TRUE]
    /\ UNCHANGED <<cfg, pyHandlers, dHandlers, overrides, tracker, metrics, tasks, waiter,
                   last, nOps, records, stored, difftest, checked, pair, snapshot>>

\* json.dump has written a part of the document to the file.
SaveWrite ==
    /\ saving.active /\ saving.opened
    /\ document.state = "empty"
    /\ document' = [state |-> "partial", data |-> saving.data]
    /\ UNCHANGED <<cfg, pyHandlers, dHandlers, overrides, tracker, metrics, tasks, waiter,
                   last, nOps, records, stored, saving, difftest, checked, pair, snapshot>>

\* json.dump has written everything and the file is closed.
SaveClose ==
    /\ saving.active /\ saving.opened
    /\ document' = [state |-> "complete", data |-> saving.data]
    /\ saving' = NoSave
    /\ UNCHANGED <<cfg, pyHandlers, dHandlers, overrides, tracker, metrics, tasks, waiter,
                   last, nOps, records, stored, difftest, checked, pair, snapshot>>

\* json.dump raises (a value that is not JSON serializable, a full disk):
\* the exception is logged and the file stays as it is.
SaveFail ==
    /\ saving.active /\ saving.opened
    /\ saving' = NoSave
    /\ UNCHANGED <<cfg, pyHandlers, dHandlers, overrides, tracker, metrics, tasks, waiter,
                   last, nOps, records, stored, document, difftest, checked, pair, snapshot>>

\* _load_from_file: the records of a complete document, else none.
_load_from_file(doc) ==
    IF doc.state = "complete" THEN doc.data ELSE [n \in {} |-> <<>>]

\* The process dies and a new database is built on the same storage path.
CrashAndRestart ==
    /\ last.op # "restart"
    /\ records' = _load_from_file(document)
    /\ stored' = records'
    /\ saving' = NoSave
    /\ last' = [LastNone EXCEPT !.op = "restart"]
    /\ UNCHANGED <<cfg, pyHandlers, dHandlers, overrides, tracker, metrics, tasks, waiter,
                   nOps, document, difftest, checked, pair, snapshot>>

NextDurable ==
    \/ \E node \in StoreNodes : Store(node)
    \/ \E node \in StoreNodes \cup {"all"} : Clear(node)
    \/ SaveOpen
    \/ SaveWrite
    \/ SaveClose
    \/ SaveFail
    \/ CrashAndRestart

SpecDurable == InitDurable /\ [][NextDurable]_vars

\* C24: with a storage path, the document at the path is at every instant a
\* complete snapshot of the store, the one before the store or clear in
\* progress or the one after it, never an empty or partly written document.
C24_AtomicPersist ==
    /\ document.state \in {"absent", "complete"}
    /\ document.state = "complete" /\ ~saving.active /\ last.op \in {"store", "clear"}
           => document.data = records

\* C25: deserialize(serialize(tracker)) tracks the nodes of the original
\* tracker and no other, each with the same total, divergences, python_errors,
\* direct_errors and last_updated, hence with the same confidence and the
\* same recommended mode.
C25_SerializeRoundTrip ==
    [][last'.op = "deserialize" /\ last.op # "deserialize" =>
          /\ DOMAIN tracker' = DOMAIN tracker
          /\ \A n \in DOMAIN tracker :
                /\ Counters(tracker'[n]) = Counters(tracker[n])
                /\ tracker'[n].last_updated = tracker[n].last_updated
          /\ \A n \in TrackerNodes :
                /\ get_confidence(tracker', n) = get_confidence(tracker, n)
                /\ get_recommended_mode(tracker', n) = get_recommended_mode(tracker, n)]_vars

\* A round trip of a tracker with two nodes, updated at different times and
\* earlier than the round trip.
C25_Witness ==
    /\ last.op = "deserialize"
    /\ snapshot.taken
    /\ DOMAIN snapshot.data = {"n1", "n2"}
    /\ DOMAIN tracker = {"n1", "n2"}
    /\ tracker["n1"].last_updated = 0
    /\ tracker["n2"].last_updated = 1
    /\ tracker["n1"].total_executions = 206
    /\ nOps = 2

\* ------------------------------------------ DifferentialTester.test_node
\* Inputs per test_node call.
MaxInputs == 2
TesterNodes == {"n1", "n2"}

\* What on_divergence is: absent, a callable that returns, one that raises.
Callbacks == {"none", "returns", "raises"}

\* DiffTestResult(node_id, total_tests, passed=0, failed=0): divergences and
\* errors hold the inputs they were recorded for.
DiffTestResult(total_tests) ==
    [total_tests |-> total_tests, passed |-> 0, failed |-> 0,
     divergences |-> <<>>, errors |-> <<>>]

Invocation(runtime, inputs) == [runtime |-> runtime, inputs |-> inputs]

\* The except branch of the loop body.
TestFailed(result, inputs, e) ==
    [result EXCEPT !.failed = @ + 1,
                   !.errors = Append(@, [inputs |-> inputs, error |-> e])]

\* The try block of the loop body, on the two runtimes' outcomes: the new
\* result and what the iteration came to.
TestBody(result, inputs, on_divergence, po, do) ==
    IF ~po.ok THEN
        [result |-> TestFailed(result, inputs, po.err), outcome |-> "execution_raised"]
    ELSE IF ~do.ok THEN
        [result |-> TestFailed(result, inputs, do.err), outcome |-> "execution_raised"]
    ELSE Then(compare(po.out, do.out), LAMBDA diff :
        IF diff = "raise" THEN
            [result |-> TestFailed(result, inputs, Err("comparator", "overflow", 0)),
             outcome |-> "compare_raised"]
        ELSE IF diff = "none" THEN
            [result |-> [result EXCEPT !.passed = @ + 1], outcome |-> "match"]
        ELSE Then([result EXCEPT !.failed = @ + 1,
                                 !.divergences = Append(@, inputs)],
                  LAMBDA r :
            IF on_divergence = "raises" THEN
                [result |-> TestFailed(r, inputs, Err("callback", "raised", 0)),
                 outcome |-> "callback_raised"]
            ELSE [result |-> r, outcome |-> "diverge"]))

\* A loop that ends at the first iteration whose except branch runs.
test_iteration_stop(t, po, do) ==
    Then(TestBody(t.result, t.test_inputs[t.i], t.on_divergence, po, do), LAMBDA b :
        [t EXCEPT !.result = b.result,
                  !.outcome = b.outcome,
                  !.calls = @ \o <<Invocation("python", t.test_inputs[t.i]),
                                   Invocation("direct", t.test_inputs[t.i])>>,
                  !.i = IF b.outcome \in {"match", "diverge"}
                        THEN t.i + 1 ELSE Len(t.test_inputs) + 1])

\* One iteration of "for inputs in test_inputs": gather starts the oracle's
\* and then the candidate's execution of the input; po and do are how they end.
test_iteration(t, po, do) ==
    Then(TestBody(t.result, t.test_inputs[t.i], t.on_divergence, po, do), LAMBDA b :
        [t EXCEPT !.result = b.result,
                  !.outcome = b.outcome,
                  !.calls = @ \o <<Invocation("python", t.test_inputs[t.i]),
                                   Invocation("direct", t.test_inputs[t.i])>>,
                  !.i = t.i + 1])

InputLists == UNION {[1..n -> Inputs] : n \in 0..MaxInputs}

InitTester ==
    /\ cfg = FullConfig
    /\ pyHandlers = {"n1", "n2"}
    /\ dHandlers = {"n1"}
    /\ overrides = EmptyMap
    /\ tracker = EmptyMap
    /\ metrics = NewCollector
    /\ tasks = <<>>
    /\ waiter = NoWaiter
    /\ last = LastNone
    /\ nOps = 0
    /\ NewStore /\ NoTools

\* await tester.test_node(node_id, test_inputs, on_divergence): up to the loop.
TestNode(node_id, test_inputs, on_divergence) ==
    /\ ~difftest.active
    /\ difftest' = [active |-> TRUE, node_id |-> node_id, test_inputs |-> test_inputs,
                    on_divergence |-> on_divergence, i |-> 1,
                    result |-> DiffTestResult(Len(test_inputs)),
                    calls |-> <<>>, outcome |-> "none", returned |-> FALSE]
    /\ UNCHANGED <<cfg, pyHandlers, dHandlers, overrides, tracker, metrics, tasks, waiter,
                   last, nOps, records, stored, document, saving, pair, snapshot, checked>>

\* The loop body for the next input.
TestInput(pch, dch) ==
    /\ difftest.active
    /\ ~difftest.returned
    /\ difftest.i <= Len(difftest.test_inputs)
    /\ difftest' = test_iteration(difftest,
                      RuntimeExecute("python", pyHandlers, difftest.node_id, pch, difftest.i),
                      RuntimeExecute("direct", dHandlers, difftest.node_id, dch, difftest.i))
    /\ UNCHANGED <<cfg, pyHandlers, dHandlers, overrides, tracker, metrics, tasks, waiter,
                   last, nOps, records, stored, document, saving, pair, snapshot, checked>>

\* return result
TestReturn ==
    /\ difftest.active
    /\ ~difftest.returned
    /\ difftest.i > Len(difftest.test_inputs)
    /\ difftest' = [difftest EXCEPT !.returned = TRUE]
    /\ last' = [LastNone EXCEPT !.op = "test_node", !.node = difftest.node_id]
    /\ nOps' = nOps + 1
    /\ UNCHANGED <<cfg, pyHandlers, dHandlers, overrides, tracker, metrics, tasks, waiter,
                   records, stored, document, saving, pair, snapshot, checked>>

NextTester ==
    \/ \E node_id \in TesterNodes, test_inputs \in InputLists, cb \in Callbacks :
          TestNode(node_id, test_inputs, cb)
    \/ \E pch \in PyValues \cup {FailChoice}, dch \in DChoices : TestInput(pch, dch)
    \/ TestReturn

SpecTester == InitTester /\ [][NextTester]_vars

\* C26: the result test_node returns has passed + failed = total_tests =
\* len(test_inputs), whatever the runtimes and the on_divergence callback do.
C26_PassedPlusFailedIsTotal ==
    difftest.active /\ difftest.returned =>
        /\ difftest.result.passed + difftest.result.failed = difftest.result.total_tests
        /\ difftest.result.total_tests = Len(difftest.test_inputs)

\* The executions of the first n inputs: each once on the oracle and then
\* once on the candidate, in input order.
Executions(test_inputs, n) ==
    [k \in 1..(2 * n) |->
        Invocation(IF k % 2 = 1 THEN "python" ELSE "direct", test_inputs[(k + 1) \div 2])]

IterationRan == difftest.active /\ difftest'.active /\ difftest'.calls # difftest.calls

\* C27: test_node executes every input exactly once on each runtime, in input
\* order; an input whose execution raises is counted as failed once, with one
\* error entry, and the loop goes on to the next input.
C27_EveryInputOnceInOrder ==
    /\ [](difftest.active =>
            /\ difftest.calls = Executions(difftest.test_inputs, difftest.i - 1)
            /\ difftest.returned =>
                  difftest.calls = Executions(difftest.test_inputs, Len(difftest.test_inputs)))
    /\ [][IterationRan /\ difftest'.outcome = "execution_raised" =>
            /\ difftest'.result.failed = difftest.result.failed + 1
            /\ difftest'.result.passed = difftest.result.passed
            /\ Len(difftest'.result.errors) = Len(difftest.result.errors) + 1
            /\ difftest'.result.errors[Len(difftest'.result.errors)].inputs
                  = difftest.test_inputs[difftest.i]
            /\ difftest'.i = difftest.i + 1
            /\ ~difftest'.returned]_vars

\* A call that returned after its first input raised on the oracle and its
\* second input, a different one, matched.
C27_Witness ==
    /\ difftest.active /\ difftest.returned
    /\ difftest.test_inputs = <<IntIn(6), IntIn(1)>>
    /\ Len(difftest.calls) = 4
    /\ difftest.result.passed = 1
    /\ difftest.result.failed = 1
    /\ Len(difftest.result.errors) = 1
    /\ difftest.result.errors[1].inputs = IntIn(6)
    /\ difftest.result.errors[1].error.src = "python"

\* ------------------------------------------ OutputComparator on its own
\* Levels of list / tuple / mapping around a scalar.
MaxDepth == 2

Strings ==
    {Str("2024-01-01T00:00:00", TRUE, TRUE, FALSE, 0),
     Str("2024-01-01T00:00:00.500", TRUE, TRUE, FALSE, 500),
     Str("2024-01-01T00:00:02", TRUE, TRUE, FALSE, 2000),
     Str("20240101T000000", FALSE, TRUE, FALSE, 0),
     Str("2024-01-01T00:00:00Z", TRUE, TRUE, TRUE, 0),
     Str("2024-13-45xx", TRUE, FALSE, FALSE, 0),
     Str("hello", FALSE, FALSE, FALSE, 0)}

Scalars ==
    {NoneVal, PyBool(TRUE), PyBool(FALSE), PyInt(0), PyInt(1), HugeInt,
     F(0), F(1), F(One), FloatSpecial("nan"), FloatSpecial("inf"), FloatSpecial("-inf"),
     Dec(One), DecSpecial("nan"), DecSpecial("snan"), DecSpecial("inf")}
    \cup Strings

\* The scalars put into containers.
Leaves ==
    {NoneVal, PyInt(1), F(One), FloatSpecial("nan"), DecSpecial("snan"),
     Str("2024-01-01T00:00:00", TRUE, TRUE, FALSE, 0)}

Wrapped(values) ==
    {PyList(<<x>>) : x \in values} \cup {PyTuple(<<x>>) : x \in values}
        \cup {PyDict([k \in {"a"} |-> x]) : x \in values}

RECURSIVE Nested(_)
Nested(depth) ==
    IF depth = 0 THEN Leaves
    ELSE IF depth = 1
         THEN Wrapped(Leaves) \cup {PyList(<<>>), PyDict(EmptyOut),
                                    PyList(<<PyInt(1), PyInt(1)>>)}
    ELSE Wrapped(Nested(depth - 1))

OutputValues == Scalars \cup UNION {Nested(d) : d \in 1..MaxDepth}

InitComparator ==
    /\ cfg = FullConfig
    /\ pyHandlers = {"n1", "n2"}
    /\ dHandlers = {"n1"}
    /\ overrides = EmptyMap
    /\ tracker = EmptyMap
    /\ metrics = NewCollector
    /\ tasks = <<>>
    /\ waiter = NoWaiter
    /\ last = LastNone
    /\ nOps = 0
    /\ NewStore /\ NoTools

\* comparator.compare({"result": a}, {"result": b}).  The comparator keeps
\* nothing between calls: a behaviour makes one.
Compare(a, b) ==
    /\ ~pair.active
    /\ pair' = [active |-> TRUE, python_output |-> Out(a), direct_output |-> Out(b),
                result |-> compare(Out(a), Out(b))]
    /\ UNCHANGED <<cfg, pyHandlers, dHandlers, overrides, tracker, metrics, tasks, waiter,
                   last, nOps, records, stored, document, saving, difftest, checked, snapshot>>

NextComparator == \E a \in OutputValues, b \in OutputValues : Compare(a, b)

SpecComparator == InitComparator /\ [][NextComparator]_vars

\* C28: the comparator is reflexive: comparing a value of the output domain
\* with itself reports equal.
C28_Reflexive ==
    pair.active /\ pair.python_output = pair.direct_output => pair.result = "none"

\* C29: the verdict is symmetric: compare(a, b) reports equal exactly when
\* compare(b, a) reports equal.
C29_Symmetric ==
    pair.active =>
        (pair.result = "none" <=> compare(pair.direct_output, pair.python_output) = "none")

\* ------------------------------------ the metrics collector through its API
\* record_execution calls per behaviour.
MaxSamples == 3
MetricsNodes == {"n1", "n2"}

\* Executions of n1 the collector recorded before the behaviour starts: none,
\* or one fewer than the window holds.
Recorded == {0, MAX_EXECUTIONS_PER_NODE - 1}

\* The samples of k successful oracle executions of n1, one per call.
EarlierSamples(k) == [i \in 1..k |-> ExecutionMetrics("n1", i - 1, "python", TRUE, FALSE)]

\* The collector after those k calls.
CollectorAfter(k) ==
    IF k = 0 THEN NewCollector
    ELSE [_executions |-> [n \in {"n1"} |-> EarlierSamples(k)],
          _aggregates |-> [n \in {"n1"} |-> AggregateMetrics(k, k, 0, 0, 0)]]

\* What a call reports: path, success, diverged.
Reports ==
    {<<"python", TRUE, FALSE>>, <<"python", FALSE, FALSE>>,
     <<"direct", TRUE, TRUE>>, <<"direct", FALSE, FALSE>>}

\* In this specification cfg is the number of earlier calls, and stored is,
\* per node, every sample recorded since the node's last reset, in arrival
\* order.
InitMetrics ==
    /\ cfg \in {[recorded |-> k] : k \in Recorded}
    /\ pyHandlers = {"n1", "n2"}
    /\ dHandlers = {"n1"}
    /\ overrides = EmptyMap
    /\ tracker = EmptyMap
    /\ metrics = CollectorAfter(cfg.recorded)
    /\ tasks = <<>>
    /\ waiter = NoWaiter
    /\ last = LastNone
    /\ nOps = cfg.recorded
    /\ records = EmptyMap
    /\ stored = CollectorAfter(cfg.recorded)._executions
    /\ document = NoDocument
    /\ saving = NoSave
    /\ NoTools

\* collector.record_execution(node_id, path, duration_ms, success, diverged)
MetricsRecordExecution(node_id, path, success, diverged) ==
    /\ nOps < cfg.recorded + MaxSamples
    /\ metrics' = MetricsCollector_record_execution(metrics, node_id, path, success, diverged)
    /\ stored' = Logged(stored, ExecutionMetrics(node_id, time_time, path, success, diverged))
    /\ last' = [LastNone EXCEPT !.op = "record_execution", !.node = node_id]
    /\ nOps' = nOps + 1
    /\ UNCHANGED <<cfg, pyHandlers, dHandlers, overrides, tracker, tasks, waiter,
                   records, document, saving, difftest, checked, pair, snapshot>>

\* collector.reset(node_id); reset() for "none".
MetricsReset(node_id) ==
    /\ metrics' = MetricsCollector_reset(metrics, node_id)
    /\ stored' = IF node_id # "none" THEN Popped(stored, node_id) ELSE EmptyMap
    /\ last' = [LastNone EXCEPT !.op = "reset", !.node = node_id]
    /\ UNCHANGED <<cfg, pyHandlers, dHandlers, overrides, tracker, tasks, waiter, nOps,
                   records, document, saving, difftest, checked, pair, snapshot>>

NextMetrics ==
    \/ \E node_id \in MetricsNodes, r \in Reports :
          MetricsRecordExecution(node_id, r[1], r[2], r[3])
    \/ \E node_id \in MetricsNodes \cup {"none"} : MetricsReset(node_id)

SpecMetrics == InitMetrics /\ [][NextMetrics]_vars

Min(a, b) == IF a < b THEN a ELSE b

\* How many of the samples satisfy Test.
CountOf(samples, Test(_)) == Cardinality({i \in 1..Len(samples) : Test(samples[i])})

\* C30: after k record_execution calls for a node its buffer holds exactly
\* the min(k, MAX_EXECUTIONS_PER_NODE) most recent samples, in arrival order,
\* and its counters count all k calls.
C30_WindowAndCounters ==
    /\ DOMAIN metrics._executions = DOMAIN stored
    /\ DOMAIN metrics._aggregates = DOMAIN stored
    /\ \A n \in DOMAIN stored :
          /\ Len(metrics._executions[n]) = Min(Len(stored[n]), MAX_EXECUTIONS_PER_NODE)
          /\ metrics._executions[n]
                = SubSeq(stored[n],
                         Len(stored[n]) - Len(metrics._executions[n]) + 1, Len(stored[n]))
          /\ metrics._aggregates[n].total_executions = Len(stored[n])
          /\ metrics._aggregates[n].python_executions
                = CountOf(stored[n], LAMBDA m : m.path = "python")
          /\ metrics._aggregates[n].direct_executions
                = CountOf(stored[n], LAMBDA m : m.path # "python")
          /\ metrics._aggregates[n].divergences = CountOf(stored[n], LAMBDA m : m.diverged)
          /\ metrics._aggregates[n].errors = CountOf(stored[n], LAMBDA m : ~m.success)

\* Two samples have left n1's full buffer; the counters still count them.
C30_Witness ==
    /\ "n1" \in DOMAIN stored
    /\ Len(stored["n1"]) = MAX_EXECUTIONS_PER_NODE + 2
    /\ Len(metrics._executions["n1"]) = MAX_EXECUTIONS_PER_NODE
    /\ metrics._executions["n1"][1].timestamp = 2
    /\ metrics._executions["n1"][MAX_EXECUTIONS_PER_NODE].path = "direct"
    /\ metrics._aggregates["n1"].total_executions = MAX_EXECUTIONS_PER_NODE + 2
    /\ metrics._aggregates["n1"].errors = 1

\* ------------------------------------------------------- ContractChecker
\* A contract is its text, a sequence of characters.  Numbers are counted in
\* tenths: the int 5 is 50, the float 5.5 is 55.
Num(tenths) == [ty |-> "num", v |-> tenths]
NoneValue == [ty |-> "none", v |-> 0]
BoolValue(b) == [ty |-> "bool", v |-> IF b THEN 10 ELSE 0]
TextValue(t) == [ty |-> "str", v |-> 0, text |-> t]

\* str.find: the first index at which sub occurs in text, 0 if none.
Find(text, sub) ==
    LET at == {i \in 1..(Len(text) - Len(sub) + 1) :
                    SubSeq(text, i, i + Len(sub) - 1) = sub}
    IN IF at = {} THEN 0 ELSE CHOOSE i \in at : \A j \in at : i <= j

\* text.split(sub, 1), for a text in which sub occurs.
SplitOnce(text, sub) ==
    <<SubSeq(text, 1, Find(text, sub) - 1),
      SubSeq(text, Find(text, sub) + Len(sub), Len(text))>>

\* str.strip
RECURSIVE Strip(_)
Strip(text) ==
    IF text = <<>> THEN text
    ELSE IF Head(text) = " " THEN Strip(Tail(text))
    ELSE IF text[Len(text)] = " " THEN Strip(SubSeq(text, 1, Len(text) - 1))
    ELSE text

Digits == [c \in {"0", "1", "2", "3", "4", "5", "6", "7", "8", "9"} |->
              CASE c = "0" -> 0 [] c = "1" -> 1 [] c = "2" -> 2 [] c = "3" -> 3
                [] c = "4" -> 4 [] c = "5" -> 5 [] c = "6" -> 6 [] c = "7" -> 7
                [] c = "8" -> 8 [] c = "9" -> 9]

IsDigits(text) == text # <<>> /\ \A i \in 1..Len(text) : text[i] \in DOMAIN Digits

RECURSIVE DigitsValue(_)
DigitsValue(text) ==
    IF text = <<>> THEN 0
    ELSE 10 * DigitsValue(SubSeq(text, 1, Len(text) - 1)) + Digits[text[Len(text)]]

\* int(token): the token is an optional sign and digits.
IsInt(token) ==
    \/ IsDigits(token)
    \/ Len(token) > 1 /\ Head(token) \in {"-", "+"} /\ IsDigits(Tail(token))
IntValue(token) ==
    IF Head(token) = "-" THEN 0 - DigitsValue(Tail(token))
    ELSE IF Head(token) = "+" THEN DigitsValue(Tail(token))
    ELSE DigitsValue(token)

\* float(token) for a token d.d with one digit after the point.
IsFloat(token) ==
    /\ Find(token, <<".">>) # 0
    /\ IsInt(SplitOnce(token, <<".">>)[1])
    /\ Len(SplitOnce(token, <<".">>)[2]) = 1
    /\ IsDigits(SplitOnce(token, <<".">>)[2])
FloatValue(token) ==
    Then(SplitOnce(token, <<".">>), LAMBDA parts :
        IF Head(token) = "-" THEN 10 * IntValue(parts[1]) - DigitsValue(parts[2])
        ELSE 10 * IntValue(parts[1]) + DigitsValue(parts[2]))

\* _get_value for a path without "(" and ".": context.get(path).
_get_value(path, context) ==
    IF Len(path) = 1 /\ path[1] \in DOMAIN context THEN context[path[1]] ELSE NoneValue

\* _parse_value
_parse_value(tok, context) ==
    Then(Strip(tok), LAMBDA token :
        IF /\ Len(token) >= 1
           /\ \/ Head(token) = "'" /\ token[Len(token)] = "'"
              \/ Head(token) = "\"" /\ token[Len(token)] = "\""
        THEN TextValue(SubSeq(token, 2, Len(token) - 1))
        ELSE IF Find(token, <<".">>) # 0 /\ IsFloat(token) THEN Num(FloatValue(token))
        ELSE IF Find(token, <<".">>) = 0 /\ IsInt(token) THEN Num(10 * IntValue(token))
        ELSE _get_value(token, context))

\* OPERATORS, in the order of the dict.
OPERATORS == << <<"=", "=">>, <<"!", "=">>, <<"<">>, <<"<", "=">>, <<">">>, <<">", "=">> >>

\* op_func(left, right): "true", "false", or "raise" (TypeError: an ordering
\* with None or between a string and a number).
Apply(op, left, right) ==
    IF op = <<"=", "=">> THEN (IF left = right THEN "true" ELSE "false")
    ELSE IF op = <<"!", "=">> THEN (IF left # right THEN "true" ELSE "false")
    ELSE IF left.ty \notin {"num", "bool"} \/ right.ty \notin {"num", "bool"} THEN "raise"
    ELSE IF op = <<"<">> THEN (IF left.v < right.v THEN "true" ELSE "false")
    ELSE IF op = <<"<", "=">> THEN (IF left.v <= right.v THEN "true" ELSE "false")
    ELSE IF op = <<">">> THEN (IF left.v > right.v THEN "true" ELSE "false")
    ELSE (IF left.v >= right.v THEN "true" ELSE "false")

\* The loop over the operators in _evaluate: the first operator of ops that
\* occurs in the contract splits it.
CompareWith(ops, contract, context) ==
    Then({i \in 1..Len(ops) : Find(contract, ops[i]) # 0}, LAMBDA found :
        IF found = {} THEN "none"
        ELSE Then(ops[CHOOSE i \in found : \A j \in found : i <= j], LAMBDA op_str :
            Apply(op_str,
                  _parse_value(SplitOnce(contract, op_str)[1], context),
                  _parse_value(SplitOnce(contract, op_str)[2], context))))

\* _evaluate on a contract with no OR, AND, NOT, IS NULL, IN or CONTAINS, with
\* the operators tried in the order ops.
_evaluate_with(ops, contract, context) ==
    Then(CompareWith(ops, contract, context), LAMBDA r :
        IF r # "none" THEN r
        ELSE IF _get_value(contract, context) \in {NoneValue, Num(0), BoolValue(FALSE)}
             THEN "false" ELSE "true")

_evaluate(contract, context) == _evaluate_with(OPERATORS, contract, context)

\* check_precondition: ContractResult.passed; an exception is a failure.
check_precondition(contract, inputs) == _evaluate(contract, inputs) = "true"

\* The operators as written in a contract, the literals and the inputs x.
OperatorTexts == {OPERATORS[i] : i \in DOMAIN OPERATORS}
Literals == {<<"4">>, <<"5">>, <<"1", "0">>, <<"5", ".", "5">>, <<"-", "1">>}
Spacings == {<<" ">>, <<>>}
ContractInputs == {Num(k) : k \in {-20, -10, 40, 50, 55, 60, 100}}

\* "x <op> k", with or without the spaces.
ContractText(op, literal, sp) == <<"x">> \o sp \o op \o sp \o literal

InitContracts ==
    /\ cfg = FullConfig
    /\ pyHandlers = {"n1", "n2"}
    /\ dHandlers = {"n1"}
    /\ overrides = EmptyMap
    /\ tracker = EmptyMap
    /\ metrics = NewCollector
    /\ tasks = <<>>
    /\ waiter = NoWaiter
    /\ last = LastNone
    /\ nOps = 0
    /\ NewStore /\ NoTools

\* checker.check_precondition("x <op> k", {"x": x}).  The checker keeps nothing
\* between calls: a behaviour makes one.
CheckPrecondition(op, literal, sp, x) ==
    /\ ~checked.made
    /\ checked' = [made |-> TRUE, op |-> op, literal |-> literal, x |-> x,
                   contract |-> ContractText(op, literal, sp),
                   passed |-> check_precondition(ContractText(op, literal, sp),
                                                 [n \in {"x"} |-> x])]
    /\ UNCHANGED <<cfg, pyHandlers, dHandlers, overrides, tracker, metrics, tasks, waiter,
                   last, nOps, records, stored, document, saving, difftest, pair, snapshot>>

NextContracts ==
    \E op \in OperatorTexts, literal \in Literals, sp \in Spacings, x \in ContractInputs :
        CheckPrecondition(op, literal, sp, x)

SpecContracts == InitContracts /\ [][NextContracts]_vars

\* The number a literal of the contracts considered denotes, in tenths.
Denotes(literal) ==
    CASE literal = <<"4">> -> 40
      [] literal = <<"5">> -> 50
      [] literal = <<"1", "0">> -> 100
      [] literal = <<"5", ".", "5">> -> 55
      [] literal = <<"-", "1">> -> -10

\* The relation an operator stands for.
Holds(op, a, b) ==
    CASE op = <<"=", "=">> -> a = b
      [] op = <<"!", "=">> -> a # b
      [] op = <<"<">> -> a < b
      [] op = <<"<", "=">> -> a <= b
      [] op = <<">">> -> a > b
      [] op = <<">", "=">> -> a >= b

\* C31: check_precondition on "x <op> k" passes exactly when the relation of
\* the operator holds between x and k, for each of the six operators.
C31_OperatorsByRelation ==
    checked.made => (checked.passed <=> Holds(checked.op, checked.x.v, Denotes(checked.literal)))

\* ------------------------------------------- the modes of the orchestrator
\* The result execute builds from the outcome o of an oracle invocation.
OracleResult(o) ==
    IF o.ok THEN ExecutionResult(o.out, "python", TRUE, NoErr)
    ELSE ExecutionResult(EmptyOut, "python", FALSE, o.err)

\* The step is an execute call that ran in the given mode.
Executed(mode) == Idle /\ last'.op = "execute" /\ last'.dec.mode = mode

\* C32: in canary mode, a decision for the candidate whose candidate succeeds
\* invokes the candidate only and returns its result; when the candidate fails
\* the oracle is invoked and its result returned; a decision for the oracle, or
\* an orchestrator without candidate runtime, invokes the oracle only; nothing
\* is compared and the tracker is left as it was.
C32_CanaryFollowsDecision ==
    [][Executed("canary_direct") =>
          /\ ~last'.raised
          /\ tracker' = tracker
          /\ records' = records
          /\ IF last'.dec.use_direct /\ cfg.hasDirect
             THEN /\ last'.dN = 1
                  /\ IF last'.d.ok
                     THEN /\ last'.pyN = 0
                          /\ last'.res = ExecutionResult(last'.d.out, "direct", TRUE, NoErr)
                     ELSE /\ last'.pyN >= 1
                          /\ last'.res = OracleResult(last'.py[last'.pyN])
             ELSE /\ last'.dN = 0
                  /\ last'.pyN >= 1
                  /\ last'.res = OracleResult(last'.py[last'.pyN])]_vars

\* A canary request the router sent to the candidate, whose candidate failed
\* and whose oracle answered.
C32_Witness ==
    /\ last.op = "execute"
    /\ last.forced = "none"
    /\ last.dec.mode = "canary_direct"
    /\ last.dec.use_direct
    /\ last.dN = 1 /\ ~last.d.ok
    /\ last.pyN = 1 /\ last.res.success
    /\ last.res.path_used = "python"

\* Every oracle invocation of the call that returns in this step succeeded.
OracleAllOkNext == \A k \in 1..last'.pyN : last'.py[k].ok

TrackedTotal(tr, node) == IF node \in DOMAIN tr THEN tr[node].total_executions ELSE 0

\* C33: in direct-only mode with a candidate runtime, a sampled request runs a
\* dual-verify (both runtimes invoked), is recorded in the tracker and gets the
\* candidate's result; a request that is not sampled invokes the candidate
\* only; either way, when the candidate fails and the oracle succeeds the
\* caller gets the oracle's successful result.
C33_DirectOnly ==
    [][Executed("direct_only") /\ cfg.hasDirect =>
          /\ ~last'.raised
          /\ last'.dN = 1
          /\ IF last'.d.ok
             THEN /\ last'.res = ExecutionResult(last'.d.out, "direct", TRUE, NoErr)
                  /\ IF last'.dec.verify_outputs
                     THEN /\ last'.pyN >= 1
                          /\ cfg.hasTracker =>
                                TrackedTotal(tracker', last'.node)
                                    = TrackedTotal(tracker, last'.node) + 1
                     ELSE last'.pyN = 0 /\ tracker' = tracker
             ELSE OracleAllOkNext =>
                    /\ last'.pyN >= 1
                    /\ last'.res = OracleResult(last'.py[last'.pyN])
                    /\ last'.res.success]_vars

TrackedDivergences(tr, node) == IF node \in DOMAIN tr THEN tr[node].divergences ELSE 0

\* C34: with a candidate runtime and a tracker, every execute_dual call that
\* returns raises the node's total by one and its divergences by one exactly
\* when the returned diverged flag is true, the calls whose candidate handler
\* failed included.
C34_DualAlwaysTracked ==
    [][Idle /\ last'.op = "execute_dual" /\ ~last'.raised
            /\ cfg.hasDirect /\ cfg.hasTracker =>
          /\ TrackedTotal(tracker', last'.node)
                = TrackedTotal(tracker, last'.node) + 1
          /\ TrackedDivergences(tracker', last'.node)
                = TrackedDivergences(tracker, last'.node)
                    + (IF last'.dual.diverged THEN 1 ELSE 0)]_vars

\* ------------------------------------------- router-driven traffic alone
\* The number of execute calls of a run of router-driven traffic.
MaxCalls == 3

\* An orchestrator whose tracker is new and whose router has no override.
InitUnforced == Init /\ tracker = EmptyMap /\ overrides = EmptyMap

\* Callers that only await orchestrator.execute(node, {"value": inp}).
NextUnforced ==
    \/ \E node \in Nodes, inp \in Inputs :
          \E pv \in PyValuesOf(node), f1 \in PyFails(node), f2 \in PyFails(node),
             dch \in DChoicesOf(node), sampled \in Draws(node, inp) :
             \E f3 \in (IF f1 /\ f2 THEN PyFails(node) ELSE {TRUE}) :
                ExecuteWithin(MaxCalls, node, inp, "none", pv, f1, f2, f3, dch, sampled)
    \/ Respond

SpecUnforced == InitUnforced /\ [][NextUnforced]_vars

\* No node has a recorded execution.
NothingTracked(tr) == \A n \in DOMAIN tr : tr[n].total_executions = 0

\* C35: from an empty tracker and a router without overrides, under any
\* sequence of execute calls without a forced mode every request is routed
\* oracle-only, the candidate is never invoked, no shadow task is launched and
\* the tracker holds no execution.
C35_RouterAloneStaysOracleOnly ==
    /\ NothingTracked(tracker)
    /\ tasks = <<>>
    /\ last.op = "execute" => last.dec.mode = "python_only" /\ last.dN = 0

C35_Witness ==
    /\ last.op = "execute" /\ last.forced = "none"
    /\ cfg = FullConfig /\ nOps = MaxCalls
    /\ last.dec.mode = "python_only" /\ last.pyN = 1 /\ last.res.success
    /\ NothingTracked(tracker)

\* C36: in dual-verify with a candidate runtime and an oracle handler that
\* succeeds whenever it is invoked: when the candidate handler fails the
\* oracle is invoked exactly twice (once in the pair, once as the fallback) and
\* the caller gets the second invocation's result; when the candidate handler
\* succeeds the oracle is invoked exactly once.
C36_OracleInvocations ==
    (InDualVerify /\ cfg.hasDirect /\ ~last.raised /\ OracleAllOk) =>
        /\ last.dN = 1
        /\ IF last.d.ok
           THEN last.pyN = 1 /\ last.fb = 0
           ELSE /\ last.pyN = 2 /\ last.fb = 1
                /\ DualPrimary = OracleResult(last.py[2])

\* The shadow tasks that ended: ran to their end, or were cancelled.
FinishedIds == {i \in DOMAIN tasks : tasks[i].status \in {"done", "cancelled"}}

\* What a wait_for_pending call that returned without a timeout found.
WaitedForAll ==
    (last.op = "wait" /\ ~last.timedOut) =>
        /\ last.waited \subseteq FinishedIds
        /\ last.sinceCall = 0 => last.pendingAtReturn = 0

FlagFlipped == [cfg EXCEPT !.shadow_mode_enabled = ~@]

\* C38: routing by confidence (no forced mode, no override of the node) gives
\* an oracle-only, canary, dual-verify or direct-only decision, never a shadow
\* one; a shadow decision comes from a forced mode or an override only; and
\* no decision of the router depends on shadow_mode_enabled.
C38_NeverShadowByConfidence ==
    /\ (last.op = "route" /\ last.forced = "none" /\ last.node \notin DOMAIN overrides) =>
          /\ last.dec.mode \in {"python_only", "canary_direct", "dual_verify", "direct_only"}
          /\ ~last.dec.is_shadow
    /\ (last.op = "route" /\ last.dec.mode = "shadow_direct") =>
          \/ last.forced = "shadow_direct"
          \/ last.forced = "none" /\ last.node \in DOMAIN overrides
                /\ overrides[last.node] = "shadow_direct"
    /\ \A node \in RouterNodes, inp \in RouteInputs, force_mode \in ForceModes,
          sampled \in BOOLEAN :
          ExecutionRouter_route(cfg, tracker, overrides, node, inp, force_mode, sampled)
            = ExecutionRouter_route(FlagFlipped, tracker, overrides, node, inp,
                                    force_mode, sampled)

C38_Witness ==
    /\ last.op = "route" /\ last.forced = "none"
    /\ last.node \notin DOMAIN overrides /\ last.node \notin DOMAIN tracker
    /\ cfg.shadow_mode_enabled
    /\ last.dec = python_only

\* ------------------------------------------------------- a pinned canary
\* execute returned for a request whose canary mode was forced by the caller
\* or set as the node's override.
CanaryPinned ==
    /\ last.op = "execute"
    /\ \/ last.forced = "canary_direct"
       \/ /\ last.forced = "none" /\ cfg.hasRouter
          /\ last.node \in DOMAIN overrides
          /\ overrides[last.node] = "canary_direct"

\* C39: a canary mode forced by the caller or set as a node override gives a
\* decision for the candidate and not the oracle, whatever the canary
\* percentage makes of the request; with a candidate runtime the candidate is
\* invoked first and the oracle only as its fallback.
C39_PinnedCanaryToCandidate ==
    CanaryPinned =>
        /\ last.dec = RoutingDecision("canary_direct", FALSE, TRUE, FALSE, FALSE)
        /\ cfg.hasDirect =>
              /\ last.dN = 1
              /\ IF last.d.ok
                 THEN /\ last.pyN = 0
                      /\ last.res = ExecutionResult(last.d.out, "direct", TRUE, NoErr)
                 ELSE last.pyN >= 1 /\ last.fb >= 1

C39_Witness ==
    /\ CanaryPinned /\ last.forced = "none"
    /\ ~_canary_decision(last.node, last.inp).use_direct
    /\ last.d.ok /\ last.pyN = 0 /\ last.res.path_used = "direct"

\* ------------------------------------------------ the collector's counters
\* The counters of every node the collector knows are consistent.
AggregatesConsistent ==
    \A n \in DOMAIN metrics._aggregates :
        /\ metrics._aggregates[n].total_executions
              = metrics._aggregates[n].python_executions
                  + metrics._aggregates[n].direct_executions
        /\ metrics._aggregates[n].divergences <= metrics._aggregates[n].total_executions
        /\ metrics._aggregates[n].errors <= metrics._aggregates[n].total_executions
        /\ metrics._aggregates[n].total_executions >= 1

\* reset(node) took the node's counters and samples and left the other nodes'.
ResetOneNode ==
    (last'.op = "reset" /\ last'.node # "none") =>
        /\ last'.node \notin DOMAIN metrics'._aggregates
        /\ last'.node \notin DOMAIN metrics'._executions
        /\ \A n \in MetricsNodes \ {last'.node} :
              /\ n \in DOMAIN metrics._aggregates =>
                    /\ n \in DOMAIN metrics'._aggregates
                    /\ metrics'._aggregates[n] = metrics._aggregates[n]
              /\ n \in DOMAIN metrics._executions =>
                    /\ n \in DOMAIN metrics'._executions
                    /\ metrics'._executions[n] = metrics._executions[n]
              /\ n \in DOMAIN metrics'._aggregates => n \in DOMAIN metrics._aggregates
              /\ n \in DOMAIN metrics'._executions => n \in DOMAIN metrics._executions

\* C40: after any sequence of record_execution and reset calls every node's
\* counters satisfy total = python + direct, divergences <= total and
\* errors <= total; and reset(node) removes the counters and the samples of
\* that node and of no other.
C40_CountersConsistent ==
    /\ []AggregatesConsistent
    /\ [][ResetOneNode]_vars

C40_Witness ==
    /\ last.op = "reset" /\ last.node = "n1"
    /\ "n1" \notin DOMAIN metrics._aggregates
    /\ "n2" \in DOMAIN metrics._aggregates
    /\ metrics._aggregates["n2"].total_executions = 2
    /\ metrics._aggregates["n2"].errors = 1
    /\ Len(metrics._executions["n2"]) = 2
    /\ nOps = cfg.recorded + MaxSamples

====
